---- MODULE Spec2Model ----
(***************************************************************************)
(* A2UI backend: the generation pipeline of backend/llm_providers.py      *)
(* (LLMService.generate_stream), its provider adapters, the tool gates,   *)
(* the rule-based classifiers of backend/content_styles and               *)
(* backend/tools.py, and the consumers of the stream in backend/app.py.   *)
(*                                                                         *)
(* Texts are sequences of lower-case word tokens (punctuation marks are    *)
(* tokens of their own); "phrase in text" of the source is "the words of   *)
(* the phrase occur consecutively in the text".                            *)
(***************************************************************************)
EXTENDS Integers, Sequences, FiniteSets, TLC

VARIABLES
    env,             \* what the process read from its environment at import
    pc,              \* position of generate_stream: idle, analyze, search, ...
    req,             \* the arguments of the running generate_stream call
    gates,           \* the resolved tool states (step 0)
    max_body_bytes,  \* the local max_body_bytes (WAF_MAX_BODY_BYTES, may be raised)
    cand,            \* _analyze_intent: index of the next candidate of _ANALYZER_MODELS
    analysis,        \* _analyze_intent: its return value (NoAnalysis = None)
    ai,              \* ai_wants_search, ai_wants_location, ai_search_query, ai_data_queries
    style_id,        \* the local style_id
    search_metadata, \* the local search_metadata
    search_images,   \* the local search_images (how many)
    ds_metadata,     \* the local ds_metadata
    ds_results,      \* the local results of the active data-source step
    augmented,       \* the context blocks augmented_message carries
    events,          \* the events generate_stream has yielded, in order
    response,        \* the local response once provider.generate has returned
    raised,          \* generate_stream ended by an exception
    calls,           \* external calls made so far: analyzer, search, connector
    llm_args,        \* the adapter whose generate runs, and whether the model id is valid
    llm_state,       \* position of the adapter's generate
    llm_outcomes,    \* what the chat-completion endpoint did on each call so far
    llm_result,      \* the result held by generate (of the last _call_llm)
    call,            \* function-level checks: the function applied and its arguments
    ret              \* function-level checks: its return value

pipeVars == <<env, pc, req, gates, max_body_bytes, cand, analysis, ai, style_id,
              search_metadata, search_images, ds_metadata, ds_results, augmented,
              events, response, raised, calls>>
llmVars == <<llm_args, llm_state, llm_outcomes, llm_result>>
unitVars == <<call, ret>>
vars == <<pipeVars, llmVars, unitVars>>

(***************************************************************************)
(* Sequences of words                                                      *)
(***************************************************************************)

\* phrase occurs in text at position i
OccursAt(phrase, text, i) ==
    /\ i + Len(phrase) - 1 <= Len(text)
    /\ \A k \in 1..Len(phrase) : text[i + k - 1] = phrase[k]

\* Python's `phrase in text`
Contains(text, phrase) ==
    \E i \in 1..Len(text) : OccursAt(phrase, text, i)

(***************************************************************************)
(* Refusal detection and the single retry                                  *)
(***************************************************************************)

_REFUSAL_PHRASES ==
    { <<"not", "available">>,
      <<"not", "yet", "available">>,
      <<"cannot", "provide">>,
      <<"don't", "have", "access">>,
      <<"no", "data", "available">>,
      <<"data", "is", "unavailable">>,
      <<"please", "refer", "to">>,
      <<"please", "consult">>,
      <<"consult", "financial">>,
      <<"check", "a", "financial">>,
      <<"unable", "to", "provide">>,
      <<"i", "can't", "provide">>,
      <<"i", "cannot", "access">> }

\* A parsed response is a record
\*   text_type  "str" | "null" | "missing" | "number"  the JSON type of "text"
\*   text       its words when it is a string
\*   a2ui_type  "dict" | "missing"   whether "a2ui" is an object
\*   components the list a2ui.components
\* and an entry of components is [dict, id, type, variant, title,
\* description], dict whether the entry is an object.
Component(id, type, variant, title, description) ==
    [dict |-> TRUE, id |-> id, type |-> type, variant |-> variant,
     title |-> title, description |-> description]

\* _is_refusal raises AttributeError on .lower() when "text" is a non-zero number
IsRefusalRaises(parsed) == parsed.text_type = "number"

_is_refusal(parsed) ==
    LET text == IF parsed.text_type = "str" THEN parsed.text ELSE <<>>
        components == IF parsed.a2ui_type = "dict" THEN parsed.components ELSE <<>>
    IN  \/ \E phrase \in _REFUSAL_PHRASES : Contains(text, phrase)
        \/ /\ Len(components) = 1
           /\ components[1].type = "alert"
           /\ \E phrase \in _REFUSAL_PHRASES :
                  Contains(components[1].description, phrase)

(***************************************************************************)
(* The standard error payload                                              *)
(***************************************************************************)

TitleWords(title) ==
    CASE title = "Request Timeout"      -> <<"request", "timeout">>
      [] title = "Something Went Wrong" -> <<"something", "went", "wrong">>
      [] title = "Empty Response"       -> <<"empty", "response">>
      [] title = "Authentication Error" -> <<"authentication", "error">>
      [] title = "Access Denied"        -> <<"access", "denied">>
      [] title = "Model Not Found"      -> <<"model", "not", "found">>
      [] title = "Rate Limited"         -> <<"rate", "limited">>
      [] title = "Gemini Error"         -> <<"gemini", "error">>

\* _clean_error_message: a text without <html or <body is returned as it is
IsHtml(raw) == \E i \in 1..Len(raw) : raw[i] \in {"<html>", "<body>"}

IsTag(w) == w \in {"<html>", "</html>", "<body>", "</body>", "<h1>", "</h1>"}

RECURSIVE StripTags(_)
StripTags(raw) ==
    IF raw = <<>> THEN <<>>
    ELSE IF IsTag(Head(raw)) THEN StripTags(Tail(raw))
    ELSE <<Head(raw)>> \o StripTags(Tail(raw))

_clean_error_message(raw) ==
    IF IsHtml(raw)
    THEN IF StripTags(raw) = <<>> THEN <<"unknown", "error">> ELSE StripTags(raw)
    ELSE raw

_error_response(title, description, variant) ==
    LET desc == _clean_error_message(description)
    IN  [text_type  |-> "str",
         text       |-> TitleWords(title) \o <<":">> \o desc,
         a2ui_type  |-> "dict",
         components |-> <<Component("error", "alert", variant, title, desc)>>]

\* the fixed descriptions the adapters pass to _error_response, by failure
Description(kind) ==
    CASE kind = "timeout" ->
           <<"the", "model", "took", "too", "long", "to", "respond", ".", "try", "again",
             "or", "switch", "to", "a", "faster", "model", ".">>
      [] kind = "api_error" ->
           <<"the", "ai", "service", "returned", "an", "error", ".", "please", "try",
             "again", "in", "a", "moment", ".">>
      [] kind = "empty_text" ->
           <<"the", "ai", "returned", "an", "empty", "response", ".", "please", "try",
             "again", "or", "switch", "models", ".">>
      [] kind = "auth" ->
           <<"your", "exploration", "lab", "api", "key", "is", "invalid", "or", "expired",
             ".", "please", "check", "litellm_api_key", ".">>
      [] kind = "permission" ->
           <<"the", "model", "'", "<model>", "'", "is", "not", "available", "on", "the",
             "exploration", "lab", "gateway", ".", "try", "a", "different", "model", ",",
             "or", "check", "that", "you're", "on", "the", "corporate", "network", "/",
             "vpn", ".">>
      [] kind = "not_found" ->
           <<"the", "model", "'", "<model>", "'", "was", "not", "found", "on", "the",
             "exploration", "lab", "gateway", ".", "try", "a", "different", "model", ".">>
      [] kind = "rate_limit" ->
           <<"too", "many", "requests", ".", "please", "wait", "a", "moment", "and",
             "try", "again", ".">>
      [] kind = "no_choices" ->
           <<"the", "gateway", "returned", "no", "choices", ".", "please", "try", "again",
             "or", "switch", "models", ".">>

(***************************************************************************)
(* The chat-completion endpoint and what it returns                        *)
(***************************************************************************)

Providers == {"openai", "anthropic", "litellm", "gemini"}

\* Typed exceptions of the SDKs (subclasses of APIError), an exception that
\* is no APIError, a completion without choices / content blocks, a
\* completion whose text is empty, and a completion with text.
ApiErrorKinds == {"auth", "permission", "not_found", "rate_limit", "api_error"}
ErrorKinds == ApiErrorKinds \cup {"timeout", "other_error"}
EmptyKinds == {"no_choices", "empty_text"}

Parsed(text_type, text, a2ui_type, components) ==
    [text_type |-> text_type, text |-> text, a2ui_type |-> a2ui_type,
     components |-> components]

Plain(id, type) == Component(id, type, "", "", <<>>)

\* What a model may answer: content is JSON (dict is the object it denotes)
\* or prose; long is len(content) > 20.
GoodAnswer ==
    [json |-> TRUE, long |-> TRUE, raw |-> <<"{", "...", "}">>,
     dict |-> Parsed("str", <<"iphone", "vs", "android", "compared", ".">>, "dict",
                     <<Plain("t", "data-table"), Plain("ch", "chart")>>)]
RefusalText ==
    [json |-> TRUE, long |-> TRUE, raw |-> <<"{", "...", "}">>,
     dict |-> Parsed("str", <<"live", "data", "is", "not", "available", ".">>,
                     "missing", <<>>)]
RefusalAlert ==
    [json |-> TRUE, long |-> TRUE, raw |-> <<"{", "...", "}">>,
     dict |-> Parsed("str", <<"see", "the", "note", ".">>, "dict",
                     <<Component("a", "alert", "info", "Note",
                                 <<"i", "cannot", "access", "prices", ".">>)>>)]
EmptyObject ==
    [json |-> TRUE, long |-> FALSE, raw |-> <<"{", "}">>,
     dict |-> Parsed("missing", <<>>, "missing", <<>>)]
NullText ==
    [json |-> TRUE, long |-> TRUE, raw |-> <<"{", "...", "}">>,
     dict |-> Parsed("null", <<>>, "dict", <<Plain("ch", "chart")>>)]
NumberText ==
    [json |-> TRUE, long |-> TRUE, raw |-> <<"{", "...", "}">>,
     dict |-> Parsed("number", <<>>, "missing", <<>>)]
Prose ==
    [json |-> FALSE, long |-> TRUE, raw |-> <<"sorry", ",", "plain", "prose", ".">>,
     dict |-> Parsed("missing", <<>>, "missing", <<>>)]

Completions ==
    {GoodAnswer, RefusalText, RefusalAlert, EmptyObject, NullText, NumberText, Prose}

NoContent == [json |-> FALSE, long |-> FALSE, raw |-> <<>>,
              dict |-> Parsed("missing", <<>>, "missing", <<>>)]

\* str(exc) of an exception of the Gemini SDK
ExcTexts ==
    { <<"504", "deadline", "exceeded">>,
      <<"<html>", "<body>", "502", "bad", "gateway", "</body>", "</html>">> }

Outcome(kind, content, exc) == [kind |-> kind, content |-> content, exc |-> exc]

Outcomes ==
    {Outcome(k, NoContent, <<>>) : k \in ErrorKinds \cup EmptyKinds}
    \cup {Outcome("content", c, <<>>) : c \in Completions}

\* the exception text is read by the Gemini adapter alone
OutcomesOf(provider) ==
    IF provider = "gemini"
    THEN {Outcome(k, NoContent, t) : k \in ErrorKinds, t \in ExcTexts}
         \cup {o \in Outcomes : o.kind \notin ErrorKinds}
    ELSE Outcomes

\* Within the pipeline the endpoint is followed through fewer outcomes
PipelineOutcomes ==
    {o \in Outcomes : \/ o.kind \in {"timeout", "not_found", "permission", "no_choices"}
                      \/ o.content \in {GoodAnswer, RefusalText, NullText}}

\* a model id the backend does not serve is answered by a 404 or a 403
EndpointOutcomes(args) ==
    LET all == IF args.unit THEN OutcomesOf(args.provider) ELSE PipelineOutcomes
    IN  IF args.model_ok THEN all
        ELSE {o \in all : o.kind \in {"not_found", "permission"}}

\* parse_llm_json: the object when the content is one, else {"text": content}
parse_llm_json(content) ==
    IF content.json THEN content.dict
    ELSE Parsed("str", content.raw, "missing", <<>>)

\* The return of a call: a value, or an exception leaving the function
Return(value) == [raised |-> FALSE, value |-> value]
Raise == [raised |-> TRUE]

EmptyResponse ==
    Return(_error_response("Empty Response", Description("empty_text"), "warning"))

OpenAI_call_llm(o) ==
    CASE o.kind = "timeout" ->
             Return(_error_response("Request Timeout", Description("timeout"), "warning"))
      [] o.kind \in ApiErrorKinds ->
             Return(_error_response("Something Went Wrong", Description("api_error"), "error"))
      [] o.kind = "other_error" -> Raise
      [] o.kind = "no_choices" -> Raise
      [] o.kind = "empty_text" -> EmptyResponse
      [] o.kind = "content" -> Return(parse_llm_json(o.content))

Anthropic_call_llm(o) ==
    CASE o.kind = "timeout" ->
             Return(_error_response("Request Timeout", Description("timeout"), "warning"))
      [] o.kind \in ApiErrorKinds ->
             Return(_error_response("Something Went Wrong", Description("api_error"), "error"))
      [] o.kind = "other_error" -> Raise
      [] o.kind = "no_choices" -> Raise
      [] o.kind = "empty_text" -> EmptyResponse
      [] o.kind = "content" -> Return(parse_llm_json(o.content))

\* the safety net of LiteLLMProvider._call_llm
LiteLLMSafetyNet(content, parsed) ==
    LET has_text == \/ parsed.text_type = "str" /\ parsed.text # <<>>
                    \/ parsed.text_type = "number"
        has_components == parsed.a2ui_type = "dict" /\ parsed.components # <<>>
    IN  IF ~has_text /\ ~has_components
        THEN Parsed("str",
                    IF content.long THEN content.raw
                    ELSE <<"the", "ai", "response", "could", "not", "be", "parsed",
                           ".", "please", "try", "again", ".">>,
                    "dict",
                    <<Component("parse-warn", "alert", "warning",
                                "Response Format Issue",
                                <<"the", "ai", "response", "didn't", "match", "the",
                                  "expected", "format", ".", "showing", "raw",
                                  "output", ".">>)>>)
        ELSE parsed

LiteLLM_call_llm(o) ==
    CASE o.kind = "auth" ->
             Return(_error_response("Authentication Error", Description("auth"), "error"))
      [] o.kind = "permission" ->
             Return(_error_response("Access Denied", Description("permission"), "error"))
      [] o.kind = "not_found" ->
             Return(_error_response("Model Not Found", Description("not_found"), "error"))
      [] o.kind = "rate_limit" ->
             Return(_error_response("Rate Limited", Description("rate_limit"), "warning"))
      [] o.kind = "timeout" ->
             Return(_error_response("Request Timeout", Description("timeout"), "warning"))
      [] o.kind = "api_error" ->
             Return(_error_response("Something Went Wrong", Description("api_error"), "error"))
      [] o.kind = "other_error" -> Raise
      [] o.kind = "no_choices" ->
             Return(_error_response("Empty Response", Description("no_choices"), "warning"))
      [] o.kind = "empty_text" -> EmptyResponse
      [] o.kind = "content" ->
             Return(LiteLLMSafetyNet(o.content, parse_llm_json(o.content)))

Gemini_call_llm(o) ==
    CASE o.kind \in ErrorKinds -> Return(_error_response("Gemini Error", o.exc, "error"))
      [] o.kind = "no_choices" -> Raise
      [] o.kind = "empty_text" -> EmptyResponse
      [] o.kind = "content" -> Return(parse_llm_json(o.content))

_call_llm(provider, o) ==
    CASE provider = "openai"    -> OpenAI_call_llm(o)
      [] provider = "anthropic" -> Anthropic_call_llm(o)
      [] provider = "litellm"   -> LiteLLM_call_llm(o)
      [] provider = "gemini"    -> Gemini_call_llm(o)

(***************************************************************************)
(* generate of an adapter: one call, and one more when it is a refusal     *)
(***************************************************************************)

NoResult == Return(Parsed("missing", <<>>, "missing", <<>>))
NoArgs == [provider |-> "none", model_ok |-> TRUE, unit |-> FALSE]

LlmInit ==
    /\ llm_args = NoArgs
    /\ llm_state = "idle"
    /\ llm_outcomes = <<>>
    /\ llm_result = NoResult

\* a retry whose result were examined for a refusal once more
StateAfterRetryExamined == "got"

\* _retry_on_refusal returns what generate_fn returns: it is not examined again
StateAfterRetry == "returned"

\* result = await self._call_llm(...)
FirstCall ==
    /\ llm_state = "first"
    /\ \E o \in EndpointOutcomes(llm_args) :
          /\ llm_outcomes' = <<o>>
          /\ llm_result' = _call_llm(llm_args.provider, o)
          /\ llm_state' = IF _call_llm(llm_args.provider, o).raised
                          THEN "raised" ELSE "got"
    /\ UNCHANGED <<llm_args, pipeVars, unitVars>>

\* return await _retry_on_refusal(result, message, lambda ...)
RetryOnRefusal ==
    /\ llm_state = "got"
    /\ IF IsRefusalRaises(llm_result.value)
       THEN /\ llm_result' = Raise
            /\ llm_state' = "raised"
            /\ UNCHANGED llm_outcomes
       ELSE IF _is_refusal(llm_result.value)
       THEN \E o \in EndpointOutcomes(llm_args) :
               /\ llm_outcomes' = Append(llm_outcomes, o)
               /\ llm_result' = _call_llm(llm_args.provider, o)
               /\ llm_state' = IF _call_llm(llm_args.provider, o).raised
                               THEN "raised" ELSE StateAfterRetry
       ELSE /\ llm_state' = "returned"
            /\ UNCHANGED <<llm_outcomes, llm_result>>
    /\ UNCHANGED <<llm_args, pipeVars, unitVars>>

(***************************************************************************)
(* Tool gates (step 0)                                                     *)
(***************************************************************************)

\* Optional[T]: None is the empty set, a value v is {v}
None == {}
Some(v) == {v}
ValueOf(opt) == CHOOSE v \in opt : TRUE

\* str.lower() on the words of the model that have upper-case letters
Lower(w) ==
    CASE w = "iPhone" -> "iphone"
      [] w = "Android" -> "android"
      [] w = "TRUE" -> "true"
      [] w = "Quick" -> "quick"
      [] OTHER -> w

\* _env_bool: val is os.getenv(key)
_env_bool(val) ==
    IF val = None THEN None
    ELSE Some(Lower(ValueOf(val)) \in {"1", "true", "yes", "on"})

\* a resolution in which the caller's toggle is not overridden
resolve_tool_toggle_only(env_override, user_setting) == user_setting

resolve_tool(env_override, user_setting) ==
    IF env_override # None THEN ValueOf(env_override) ELSE user_setting

Tools == {"web_search", "geolocation", "history", "ai_classifier", "data_sources"}

\* generate_stream, step 0: locks are the TOOL_*_ENV values by tool, the
\* other arguments enable_web_search, enable_geolocation, "history is given
\* and not empty" and enable_data_sources
ResolveTools(locks, web_search, geolocation, has_history, data_sources) ==
    [web_search    |-> resolve_tool(locks.web_search, web_search),
     geolocation   |-> resolve_tool(locks.geolocation, geolocation),
     history       |-> resolve_tool(locks.history, has_history),
     ai_classifier |-> resolve_tool(locks.ai_classifier, TRUE),
     data_sources  |-> resolve_tool(locks.data_sources, data_sources)]

(***************************************************************************)
(* Rule-based classification of the message                                *)
(***************************************************************************)

\* A message is the sequence of its words as typed (no punctuation, and no
\* word of a message has an indicator as a proper part of it).
LowerAll(message) == [i \in 1..Len(message) |-> Lower(message[i])]

AnyIn(text, phrases) == \E phrase \in phrases : Contains(text, phrase)

Numbers == {"3", "5", "10"}

\* _CLASSIFICATION_RULES in order. A rule matches when one of its phrases
\* occurs (case-insensitively when nocase) and, when after is not empty, one
\* of the words of after occurs behind it.
\* _CLASSIFICATION_RULES in order: [phrases, nocase, style]; a rule matches
\* when one of its phrases occurs (case-insensitively when nocase)
_CLASSIFICATION_RULES ==
    << [after |-> {}, nocase |-> TRUE, style |-> "analytical", phrases |->
          { <<"stock">>, <<"stocks">>, <<"ticker">>, <<"share", "price">>,
            <<"market", "cap">>, <<"pe", "ratio">>, <<"p/e", "ratio">>,
            <<"earnings">>, <<"revenue">>, <<"dividend">>, <<"dividends">>,
            <<"eps">>, <<"52", "week">>, <<"nasdaq">>, <<"dow", "jones">>,
            <<"s&p", "500">>, <<"bull">>, <<"bullish">>, <<"bear">>,
            <<"bearish">>, <<"portfolio">>, <<"ipo">>, <<"etf">>, <<"etfs">>,
            <<"mutual", "fund">>, <<"mutual", "funds">>, <<"bond", "yield">>,
            <<"bond", "yields">> }],
       [after |-> {}, nocase |-> FALSE, style |-> "analytical", phrases |->
          { <<t>> : t \in {"NVDA", "AAPL", "GOOG", "GOOGL", "MSFT", "AMZN", "TSLA",
                           "META", "AMD", "INTC", "QCOM", "NFLX", "BA", "JPM", "WMT",
                           "DIS", "V", "MA", "UNH", "JNJ", "PG", "HD", "COST", "CRM",
                           "AVGO", "MU"} }],
       [after |-> {}, nocase |-> FALSE, style |-> "analytical", phrases |->
          { <<"$100">>, <<"$2.5B">>, <<"$1,000">> }],
       [after |-> {}, nocase |-> TRUE, style |-> "analytical", phrases |->
          { <<"forecast">>, <<"gdp">>, <<"inflation">>, <<"interest", "rate">>,
            <<"unemployment">>, <<"economic">>, <<"recession">>, <<"deficit">>,
            <<"trade", "balance">> }],
       [after |-> {}, nocase |-> TRUE, style |-> "analytical", phrases |->
          { <<"kpi">>, <<"dashboard">>, <<"metric">>, <<"analytics">> }],
       [nocase |-> TRUE, style |-> "analytical", phrases |->
          {<<"top", n>> : n \in Numbers} \cup {<<"best", n>> : n \in Numbers}
          \cup {<<"largest">>, <<"biggest">>, <<"highest">>, <<"ranking">>},
        after |-> {"stock", "stocks", "companies", "company", "fund", "funds",
                   "etf", "etfs", "bank", "banks", "tech", "startup", "startups",
                   "crypto"}],
       [after |-> {}, nocase |-> TRUE, style |-> "comparison", phrases |->
          { <<"vs">>, <<"versus">> }],
       [after |-> {}, nocase |-> TRUE, style |-> "comparison", phrases |->
          { <<"compare">>, <<"comparison">>, <<"which", "is", "better">>,
            <<"pros", "and", "cons">>, <<"pro", "and", "con">>,
            <<"pros", "&", "cons">>, <<"difference", "between">>,
            <<"differences", "between">>, <<"head", "to", "head">> }],
       [after |-> {}, nocase |-> TRUE, style |-> "howto", phrases |->
          { <<"how", "to">>, <<"how", "do", "i">>, <<"how", "can", "i">>,
            <<"step", "by", "step">>, <<"guide", "to">>, <<"tutorial">>,
            <<"recipe">>, <<"instructions", "for">>, <<"instructions", "to">>,
            <<"instruction", "for">>, <<"instruction", "to">>, <<"set", "up">>,
            <<"setup">>, <<"install">>, <<"configure">>, <<"troubleshoot">> }],
       [after |-> {}, nocase |-> TRUE, style |-> "content", phrases |->
          { <<"what", v>> : v \in {"is", "are", "was", "were", "does", "do"} }
          \cup { <<"who", v>> : v \in {"is", "are", "was", "were"} }
          \cup { <<"why", v>> : v \in {"is", "are", "do", "does", "did"} }
          \cup { <<"explain">>, <<"history", "of">>, <<"define">>,
                 <<"meaning", "of">>, <<"overview", "of">>,
                 <<"tell", "me", "about">>, <<"describe">>, <<"look", "like">>,
                 <<"looks", "like">> }],
       [after |-> {}, nocase |-> TRUE, style |-> "content", phrases |->
          {<<"top", n>> : n \in Numbers} \cup {<<"best", n>> : n \in Numbers}] >>

DEFAULT_STYLE == "content"

RuleMatches(rule, message) ==
    LET msg == IF rule.nocase THEN LowerAll(message) ELSE message
    IN  \E phrase \in rule.phrases : \E i \in 1..Len(msg) :
            /\ OccursAt(phrase, msg, i)
            /\ \/ rule.after = {}
               \/ \E j \in (i + Len(phrase))..Len(msg) : msg[j] \in rule.after

classify_style(message) ==
    LET matching == {i \in 1..Len(_CLASSIFICATION_RULES) :
                         RuleMatches(_CLASSIFICATION_RULES[i], message)}
    IN  IF matching # {}
        THEN _CLASSIFICATION_RULES[CHOOSE i \in matching :
                                       \A j \in matching : i <= j].style
        ELSE IF Len(message) <= 4 THEN "quick" ELSE DEFAULT_STYLE

\* should_search: any indicator occurs in message.lower()
should_search(message) ==
    AnyIn(LowerAll(message),
          { <<w>> : w \in
              {"current", "latest", "today", "now", "recent", "yesterday", "nowadays",
               "trending", "popular", "buzzing", "price", "stock", "market",
               "trading", "index", "fund", "dow", "djia", "nasdaq", "s&p", "sp500",
               "s&p500", "nyse", "russell", "ftse", "nikkei", "bitcoin", "btc",
               "eth", "ethereum", "crypto", "forex", "bond", "treasury", "yield",
               "earnings", "ipo", "dividend", "ticker", "share", "shares",
               "weather", "forecast", "temperature", "news", "headlines",
               "breaking", "score", "game", "match", "standings", "compare", "vs",
               "versus", "result", "update", "status", "artwork", "art", "design",
               "architecture", "fashion", "2024", "2025", "2026"} }
          \cup { <<"right", "now">>, <<"this", "week">>, <<"this", "month">>,
                 <<"this", "year">>, <<"these", "days">>, <<"getting", "noticed">>,
                 <<"going", "viral">>, <<"hang", "seng">>, <<"market", "cap">>,
                 <<"what", "is", "the">>, <<"how", "much">>, <<"who", "won">>,
                 <<"who", "is">>, <<"where", "is">>, <<"when", "is">>,
                 <<"is", "it">>, <<"show", "me">>, <<"pictures", "of">>,
                 <<"photos", "of">>, <<"images", "of">>, <<"what", "does">>,
                 <<"look", "like">> })

_regex_needs_location(message) ==
    AnyIn(LowerAll(message),
          { <<w>> : w \in
              {"weather", "forecast", "temperature", "nearby", "local",
               "restaurant", "food", "store", "shop", "event", "concert",
               "traffic", "commute", "directions", "closest"} }
          \cup { <<"near", "me">>, <<"open", "now">> })

\* _wants_images: no word of _NO_IMAGES_RE and a phrase of _VISUAL_QUERY_RE
_wants_images(message) ==
    /\ ~AnyIn(LowerAll(message),
              { <<w>> : w \in
                  {"stock", "stocks", "price", "prices", "market", "markets",
                   "trading", "portfolio", "gdp", "inflation", "weather",
                   "forecast", "temperature", "code", "program", "function",
                   "functions", "error", "errors", "bug", "bugs", "debug",
                   "configure", "install", "recipe", "tutorial", "dashboard",
                   "kpi", "metric", "metrics", "analysis", "analytics"} }
              \cup { <<"interest", "rate">>, <<"how", "to">>,
                     <<"step", "by", "step">> })
    /\ AnyIn(LowerAll(message),
             { <<"look", "like">>, <<"looks", "like">>, <<"appearance">>,
               <<"show", "me">>, <<"picture", "of">>, <<"pictures", "of">>,
               <<"photo", "of">>, <<"photos", "of">>, <<"image", "of">>,
               <<"images", "of">> }
             \cup { <<"what", v>> : v \in {"is", "are", "do", "does"} })

(***************************************************************************)
(* The style registry                                                      *)
(***************************************************************************)

VALID_STYLE_IDS == {"analytical", "content", "comparison", "howto", "quick"}

\* unknown ids fall back to DEFAULT_STYLE in both accessors
RegisteredStyle(style) ==
    IF style \in VALID_STYLE_IDS THEN style ELSE DEFAULT_STYLE

get_component_priority(style) ==
    CASE RegisteredStyle(style) = "analytical" ->
           <<"alert", "grid", "stat", "chart", "data-table", "list", "accordion",
             "tabs", "card">>
      [] RegisteredStyle(style) = "comparison" ->
           <<"alert", "chart", "data-table", "grid", "stat", "list", "accordion",
             "tabs", "card">>
      [] RegisteredStyle(style) = "content" ->
           <<"alert", "text", "card", "list", "data-table", "accordion", "tabs",
             "grid", "chart", "stat">>
      [] RegisteredStyle(style) = "howto" ->
           <<"alert", "list", "text", "accordion", "card", "data-table", "tabs",
             "grid", "chart", "stat">>
      [] RegisteredStyle(style) = "quick" ->
           <<"alert", "text", "list", "chip", "card", "data-table", "accordion",
             "stat", "chart", "grid", "tabs">>

\* len(get_system_prompt(style).encode("utf-8")): the composed prompt
\* (BASE_RULES, a blank line, the style's prompt) behind the date sentence
DatePrefixBytes == 115
SystemPromptBytes(style) ==
    DatePrefixBytes +
    CASE RegisteredStyle(style) = "analytical" -> 8964
      [] RegisteredStyle(style) = "content" -> 6706
      [] RegisteredStyle(style) = "comparison" -> 5952
      [] RegisteredStyle(style) = "howto" -> 5862
      [] RegisteredStyle(style) = "quick" -> 4864

(***************************************************************************)
(* Post-processing: the visual hierarchy                                   *)
(***************************************************************************)

\* priority.index(ctype), or len(priority) for a type that is not listed
Rank(priority, ctype) ==
    IF \E i \in 1..Len(priority) : priority[i] = ctype
    THEN CHOOSE i \in 1..Len(priority) :
             priority[i] = ctype /\ \A j \in 1..(i - 1) : priority[j] # ctype
    ELSE Len(priority) + 1

\* an insertion that puts a component before the components of its own rank
RECURSIVE InsertBeforeEqualRank(_, _, _)
InsertBeforeEqualRank(sorted, c, priority) ==
    IF sorted = <<>> THEN <<c>>
    ELSE IF Rank(priority, sorted[Len(sorted)].type) < Rank(priority, c.type)
    THEN Append(sorted, c)
    ELSE Append(InsertBeforeEqualRank(SubSeq(sorted, 1, Len(sorted) - 1), c, priority),
                sorted[Len(sorted)])

\* list.sort(key=_rank): stable
RECURSIVE InsertByRank(_, _, _)
InsertByRank(sorted, c, priority) ==
    IF sorted = <<>> THEN <<c>>
    ELSE IF Rank(priority, sorted[Len(sorted)].type) <= Rank(priority, c.type)
    THEN Append(sorted, c)
    ELSE Append(InsertByRank(SubSeq(sorted, 1, Len(sorted) - 1), c, priority),
                sorted[Len(sorted)])

RECURSIVE SortByRank(_, _)
SortByRank(components, priority) ==
    IF components = <<>> THEN <<>>
    ELSE InsertByRank(SortByRank(SubSeq(components, 1, Len(components) - 1), priority),
                      components[Len(components)], priority)

\* a string the model slipped into a2ui.components
StrayString ==
    [dict |-> FALSE, id |-> "", type |-> "", variant |-> "", title |-> "",
     description |-> <<>>]

\* isinstance(c, dict)
IsDict(c) == c.dict

\* _enforce_visual_hierarchy with a priority list (get_component_priority
\* returns one for every style id)
_enforce_visual_hierarchy(result, priority) ==
    LET dict_components == SelectSeq(result.components, IsDict)
    IN  IF result.a2ui_type # "dict" \/ Len(result.components) < 2 THEN result
        ELSE IF Len(dict_components) < 2 THEN result
        ELSE [result EXCEPT !.components = SortByRank(dict_components, priority)]

(***************************************************************************)
(* The process environment and the requests                                *)
(***************************************************************************)

Locks(web_search, geolocation, history, ai_classifier, data_sources) ==
    [web_search |-> web_search, geolocation |-> geolocation, history |-> history,
     ai_classifier |-> ai_classifier, data_sources |-> data_sources]

WafBudget == 7200

\* keys: the providers whose API key is set (is_available); locks: TOOL_*_ENV;
\* waf: WAF_MAX_BODY_BYTES; tavily: web_search.is_available();
\* sources: the data sources that are configured and available
Environments ==
    { [keys |-> {"openai"}, locks |-> Locks(None, None, None, None, None),
       waf |-> None, tavily |-> TRUE, sources |-> {"crm"}],
      [keys |-> {"litellm", "anthropic"},
       locks |-> Locks(Some(TRUE), None, None, None, None),
       waf |-> Some(WafBudget), tavily |-> FALSE, sources |-> {"crm"}],
      [keys |-> {"openai", "gemini"},
       locks |-> Locks(Some(FALSE), Some(FALSE), Some(FALSE), Some(FALSE),
                       Some(FALSE)),
       waf |-> None, tavily |-> TRUE, sources |-> {}] }

Messages ==
    { <<"iPhone", "vs", "Android">>, <<"weather", "today">>, <<"hello", "there">> }

\* The arguments of generate_stream for a request that chat has accepted
\* (message not blank, provider and model given). model_ok: the backend of
\* the provider serves the model id. user_location: a location is attached.
\* data_context: the number of blocks the caller supplies. history is empty.
Requests ==
    [message : Messages,
     provider_id : {"openai", "litellm", "bogus"},
     model_ok : BOOLEAN,
     content_style : {"auto", "comparison", "bogus"},
     performance_mode : {"auto", "comprehensive", "optimized"},
     enable_web_search : BOOLEAN,
     enable_geolocation : BOOLEAN,
     enable_data_sources : BOOLEAN,
     user_location : BOOLEAN,
     data_context : {0, 1}]

NoRequest ==
    [message |-> <<>>, provider_id |-> "none", model_ok |-> TRUE,
     content_style |-> "auto", performance_mode |-> "auto",
     enable_web_search |-> TRUE, enable_geolocation |-> TRUE,
     enable_data_sources |-> TRUE, user_location |-> FALSE, data_context |-> 0]

\* get_provider: the adapter when the id is registered and its key is set
get_provider(provider_id) ==
    IF provider_id \in Providers /\ provider_id \in env.keys
    THEN Some(provider_id) ELSE None

Event(event, id, status, label) ==
    [event |-> event, id |-> id, status |-> status, label |-> label]
Step(id, status, label) == Event("step", id, status, label)

NoAi == [wants_search |-> FALSE, wants_location |-> FALSE, search_query |-> "",
         data_queries |-> <<>>]
NoCalls == [analyzer |-> <<>>, search |-> 0, connector |-> 0]

PipeInit ==
    /\ env \in Environments
    /\ pc = "idle"
    /\ req = NoRequest
    /\ gates = ResolveTools(Locks(None, None, None, None, None),
                            TRUE, TRUE, FALSE, TRUE)
    /\ max_body_bytes = None
    /\ cand = 1
    /\ analysis = None
    /\ ai = NoAi
    /\ style_id = DEFAULT_STYLE
    /\ search_metadata = None
    /\ search_images = 0
    /\ ds_metadata = None
    /\ ds_results = <<>>
    /\ augmented = <<>>
    /\ events = <<>>
    /\ response = None
    /\ raised = FALSE
    /\ calls = NoCalls

Init ==
    /\ PipeInit
    /\ LlmInit
    /\ call = None
    /\ ret = None

\* generate_stream up to its second yield
Start ==
    /\ pc = "idle"
    /\ llm_state = "idle"
    /\ \E r \in Requests :
          /\ req' = r
          /\ IF get_provider(r.provider_id) = None
             THEN /\ events' = <<Event("error", "", "", "provider is not available")>>
                  /\ pc' = "closed"
                  /\ UNCHANGED <<gates, max_body_bytes>>
             ELSE /\ gates' = ResolveTools(env.locks, r.enable_web_search,
                                           r.enable_geolocation, FALSE,
                                           r.enable_data_sources)
                  /\ max_body_bytes' = env.waf
                  /\ events' = <<Step("tools", "done", "Tools configured"),
                                 Step("analyzer", "start", "Analyzing intent")>>
                  /\ pc' = "analyze"
    /\ UNCHANGED <<env, cand, analysis, ai, style_id, search_metadata,
                   search_images, ds_metadata, ds_results,
                   augmented, response, raised, calls, llmVars, unitVars>>

(***************************************************************************)
(* Step 1: the Analyzer                                                    *)
(***************************************************************************)

\* a candidate list that puts anthropic before litellm
_ANALYZER_MODELS_reordered == <<"openai", "anthropic", "litellm", "gemini">>

_ANALYZER_MODELS == <<"openai", "litellm", "anthropic", "gemini">>

\* the first candidate from position c on whose provider is available
NextCandidate(c) ==
    IF \E i \in c..Len(_ANALYZER_MODELS) : _ANALYZER_MODELS[i] \in env.keys
    THEN CHOOSE i \in c..Len(_ANALYZER_MODELS) :
             /\ _ANALYZER_MODELS[i] \in env.keys
             /\ \A j \in c..(i - 1) : _ANALYZER_MODELS[j] \notin env.keys
    ELSE Len(_ANALYZER_MODELS) + 1

Query(dict, source) == [dict |-> dict, source |-> source]

Reply(kind, style, search, location, search_query, data_sources) ==
    [kind |-> kind, style |-> style, search |-> search, location |-> location,
     search_query |-> search_query, data_sources |-> data_sources]

\* What a candidate answers: an exception, text that is no JSON, or a JSON
\* object. data_sources lists objects (dict) or other JSON values.
AnalyzerReplies ==
    { Reply("error", "", FALSE, FALSE, "", <<>>),
      Reply("not_json", "", FALSE, FALSE, "", <<>>),
      Reply("json", "fancy", TRUE, TRUE, "", <<>>),
      Reply("json", "comparison", FALSE, FALSE, "", <<>>),
      Reply("json", "analytical", TRUE, TRUE, "optimized query",
            <<Query(TRUE, "crm"), Query(TRUE, "crm")>>),
      Reply("json", "Quick", TRUE, FALSE, "",
            <<Query(TRUE, "nowhere"), Query(TRUE, "crm")>>),
      Reply("json", "content", FALSE, TRUE, "", <<Query(FALSE, "crm")>>) }

\* json.loads gives an object whose style, lowered and stripped, is registered
Accepted(reply) == reply.kind = "json" /\ Lower(reply.style) \in VALID_STYLE_IDS

\* one turn of the loop of _analyze_intent that reaches a call
AnalyzerTry ==
    /\ pc = "analyze"
    /\ gates.ai_classifier
    /\ analysis = None
    /\ NextCandidate(cand) <= Len(_ANALYZER_MODELS)
    /\ cand' = NextCandidate(cand) + 1
    /\ \E reply \in AnalyzerReplies :
          /\ calls' = [calls EXCEPT
                         !.analyzer = Append(@,
                             [provider |-> _ANALYZER_MODELS[NextCandidate(cand)],
                              accepted |-> Accepted(reply)])]
          /\ analysis' = IF Accepted(reply)
                         THEN Some([style |-> Lower(reply.style),
                                    search |-> reply.search,
                                    location |-> reply.location,
                                    search_query |-> reply.search_query,
                                    data_sources |-> reply.data_sources])
                         ELSE None
    /\ UNCHANGED <<env, pc, req, gates, max_body_bytes, ai, style_id, search_metadata, search_images,
                   ds_metadata, ds_results, augmented, events, response, raised, llmVars,
                   unitVars>>

\* the style the branches of step 1 assign, a the analysis (None: no analysis)
StyleOfAnalysis(content_style, classifier_active, a, message) ==
    IF content_style # "auto" THEN content_style
    ELSE IF classifier_active
    THEN IF a # None THEN ValueOf(a).style ELSE DEFAULT_STYLE
    ELSE classify_style(message)

\* ai_wants_search, ai_wants_location, ai_search_query, ai_data_queries
ToolsOfAnalysis(a, message) ==
    IF a # None
    THEN [wants_search |-> ValueOf(a).search, wants_location |-> ValueOf(a).location,
          search_query |-> ValueOf(a).search_query,
          data_queries |-> ValueOf(a).data_sources]
    ELSE [wants_search |-> should_search(message),
          wants_location |-> _regex_needs_location(message),
          search_query |-> "", data_queries |-> <<>>]

\* style_bytes > max_body_bytes * 0.75
OverBudget(style, budget) == 4 * SystemPromptBytes(style) > 3 * budget

\* overrides that do not ask whether the caller chose the style
BudgetStyleOfAnyChoice(style, content_style, performance_mode, budget) ==
    IF style # "quick"
    THEN IF performance_mode = "optimized" THEN "quick"
         ELSE IF performance_mode = "auto" /\ budget # None
                 /\ OverBudget(style, ValueOf(budget))
         THEN IF ~OverBudget("content", ValueOf(budget)) THEN "content"
              ELSE IF ~OverBudget("quick", ValueOf(budget)) THEN "quick"
              ELSE style
         ELSE style
    ELSE style

\* the budget / performance style overrides
BudgetStyle(style, content_style, performance_mode, budget) ==
    IF content_style = "auto" /\ style # "quick"
    THEN IF performance_mode = "optimized" THEN "quick"
         ELSE IF performance_mode = "auto" /\ budget # None
                 /\ OverBudget(style, ValueOf(budget))
         THEN IF ~OverBudget("content", ValueOf(budget)) THEN "content"
              ELSE IF ~OverBudget("quick", ValueOf(budget)) THEN "quick"
              ELSE style
         ELSE style
    ELSE style

\* a search step that the gate does not hold back
do_search_ungated(ai_wants_search, web_search_allowed) == ai_wants_search

\* do_search = ai_wants_search and web_search_allowed
do_search(ai_wants_search, web_search_allowed) ==
    ai_wants_search /\ web_search_allowed

\* generate_stream from the return of the Analyzer (or from the branch that
\* does not call it) to the search step
AnalyzeDone ==
    /\ pc = "analyze"
    /\ \/ ~gates.ai_classifier
       \/ analysis # None
       \/ NextCandidate(cand) > Len(_ANALYZER_MODELS)
    /\ ai' = ToolsOfAnalysis(analysis, req.message)
    /\ style_id' = BudgetStyle(StyleOfAnalysis(req.content_style, gates.ai_classifier,
                                               analysis, req.message),
                               req.content_style, req.performance_mode,
                               max_body_bytes)
    /\ augmented' = <<"message">>
    /\ IF do_search(ai'.wants_search, gates.web_search)
       THEN /\ events' = events \o <<Step("analyzer", "done", "Intent analyzed"),
                                     Step("search", "start", "Searching the web")>>
            /\ pc' = "search"
       ELSE /\ events' = Append(events, Step("analyzer", "done", "Intent analyzed"))
            /\ pc' = "data"
    /\ UNCHANGED <<env, req, gates, max_body_bytes, cand, analysis, search_metadata, search_images,
                   ds_metadata, ds_results, response, raised, calls, llmVars, unitVars>>

(***************************************************************************)
(* Step 3: web search                                                      *)
(***************************************************************************)

SearchMeta(searched, success, error, results_count, images_count, query) ==
    [searched |-> searched, success |-> success, error |-> error,
     results_count |-> results_count, images_count |-> images_count,
     query |-> query]

\* search_query = ai_search_query or rewrite_search_query(message, ...); the
\* rewritten message (filler stripped, date appended) is one opaque query
SearchQuery(ai_search_query, message) ==
    IF ai_search_query # "" THEN ai_search_query ELSE "rewritten query"

\* What web_search.search returns (it catches every exception). results and
\* images are counts; titles / contents: every result carries a string under
\* "title" / "content" (item.get(key, "") hands on a null of the backend).
SearchReturn(success, error, results, images, titles, contents) ==
    [success |-> success, error |-> error, results |-> results, images |-> images,
     titles |-> titles, contents |-> contents]

SearchReturns ==
    { SearchReturn(TRUE, "", 2, 1, TRUE, TRUE),
      SearchReturn(TRUE, "", 0, 0, TRUE, TRUE),
      SearchReturn(FALSE, "timeout", 0, 0, TRUE, TRUE),
      SearchReturn(TRUE, "", 2, 1, TRUE, FALSE),
      SearchReturn(TRUE, "", 2, 1, FALSE, TRUE) }

\* WebSearchTool.format_for_context: None on a failure, a context otherwise;
\* result['content'][:400] raises on a content that is no string
format_for_context(r) ==
    IF ~r.success THEN Return(None)
    ELSE IF r.results = 0 THEN Return(Some("no_results"))
    ELSE IF ~r.contents THEN Raise
    ELSE Return(Some("results"))

\* the log lines behind the assignment of augmented_message:
\* r.get("title", "")[:50] and r.get("content", "")[:100] of the results
LogResultsRaises(r) == r.results > 0 /\ (~r.titles \/ ~r.contents)

\* a search step that reports its end as one more progress event
SearchProgress(label) == Step("search", "progress", label)

\* the done event of the search step
SearchDone(label) == Step("search", "done", label)

\* generate_stream, the search step behind its start event
SearchRun ==
    /\ pc = "search"
    /\ IF env.tavily
       THEN \E r \in SearchReturns :
            LET q == SearchQuery(ai.search_query, req.message)
                context == format_for_context(r)
                failed(error) == SearchMeta(TRUE, FALSE, error, 0, 0, q)
            IN  /\ calls' = [calls EXCEPT !.search = @ + 1]
                /\ IF context.raised
                   THEN /\ search_metadata' = Some(failed("exception"))
                        /\ events' = Append(events, SearchDone("Search failed"))
                        /\ UNCHANGED <<augmented, search_images>>
                   ELSE IF context.value # None
                   THEN /\ augmented' = <<"search">> \o augmented
                        /\ search_images' = r.images
                        /\ IF LogResultsRaises(r)
                           THEN /\ search_metadata' = Some(failed("exception"))
                                /\ events' = Append(events, SearchDone("Search failed"))
                           ELSE /\ search_metadata' = Some(SearchMeta(TRUE, TRUE,
                                                       "", r.results, r.images, q))
                                /\ events' = Append(events,
                                                    SearchDone("Search complete"))
                   ELSE /\ search_metadata' = Some(failed(r.error))
                        /\ events' = Append(events,
                                            SearchDone("Search returned no results"))
                        /\ UNCHANGED <<augmented, search_images>>
       ELSE /\ search_metadata' = Some(SearchMeta(FALSE, FALSE, "not_configured",
                                                  0, 0, ""))
            /\ events' = Append(events, SearchDone("Search unavailable"))
            /\ UNCHANGED <<calls, augmented, search_images>>
    /\ pc' = "data"
    /\ UNCHANGED <<env, req, gates, max_body_bytes, cand, analysis, ai, style_id,
                   ds_metadata, ds_results, response, raised, llmVars, unitVars>>

(***************************************************************************)
(* Step 3.5: data sources, and the prompt setup                            *)
(***************************************************************************)

DsMeta(passive, sources, queries, successful, failed) ==
    [passive |-> passive, sources |-> sources, queries |-> queries,
     successful |-> successful, failed |-> failed]

\* a dispatch that asks no registry: every query reaches a connector
DispatchedUnchecked(qs) == 1..Len(qs)

\* the queries of qs that reach a connector: the others get the skip result
Dispatched(qs) == {i \in 1..Len(qs) : qs[i].source \in env.sources}

\* _skip_result(query)
_skip_result(q) ==
    [success |-> FALSE, error |-> "source_unavailable", source |-> q.source]

\* _execute_query(source, query): the result of the connector, or the failed
\* result that stands for its exception
_execute_query(q, succeeds) ==
    [success |-> succeeds, error |-> IF succeeds THEN "" ELSE "connector_error",
     source |-> q.source]

\* query_sources(queries) when the connector calls of ok succeed
query_sources(queries, ok) ==
    [i \in 1..Len(queries) |->
        IF i \in Dispatched(queries) THEN _execute_query(queries[i], i \in ok)
        ELSE _skip_result(queries[i])]

\* format_results_for_context(results): the results that give a block
format_results_for_context(results) ==
    SelectSeq(results, LAMBDA r : r.source \in env.sources /\ r.success)

\* a step that looks at the supplied context only when there are no queries
PassiveAfterActive(data_context, queries, allowed) ==
    data_context > 0 /\ ~(queries # <<>> /\ allowed)

\* `if data_context:` comes first, `elif ai_data_queries and
\* data_sources_allowed:` second
PassiveInjection(data_context, queries, allowed) == data_context > 0

\* the auto-degrade of the prompt setup: max(max_body_bytes, prompt_bytes + 1500)
DegradedBudget(budget, style, performance_mode) ==
    IF budget # None /\ performance_mode = "auto" /\ OverBudget(style, ValueOf(budget))
    THEN Some(IF ValueOf(budget) >= SystemPromptBytes(style) + 1500
              THEN ValueOf(budget) ELSE SystemPromptBytes(style) + 1500)
    ELSE budget

\* location_context is not empty
HasLocationContext ==
    ai.wants_location /\ gates.geolocation /\ req.user_location

\* a prompt setup that announces the generation step ahead of the events of
\* the data-source step
PromptSetupAnnouncedEarly(data, evs) ==
    /\ augmented' = (IF HasLocationContext THEN <<"location">> ELSE <<>>)
                    \o data \o augmented
    /\ max_body_bytes' = DegradedBudget(max_body_bytes, style_id,
                                        req.performance_mode)
    /\ events' = events \o <<Step("llm", "start", "Generating response")>> \o evs
    /\ llm_args' = [provider |-> req.provider_id, model_ok |-> req.model_ok,
                    unit |-> FALSE]
    /\ llm_state' = "first"
    /\ pc' = "generate"
    /\ UNCHANGED raised

\* lines 1540-1582: the prompt setup, the start event of the generation step
\* and the call of provider.generate, data the blocks of ds_context
PromptSetup(data, evs) ==
    /\ augmented' = (IF HasLocationContext THEN <<"location">> ELSE <<>>)
                    \o data \o augmented
    /\ max_body_bytes' = DegradedBudget(max_body_bytes, style_id,
                                        req.performance_mode)
    /\ events' = events \o evs \o <<Step("llm", "start", "Generating response")>>
    /\ llm_args' = [provider |-> req.provider_id, model_ok |-> req.model_ok,
                    unit |-> FALSE]
    /\ llm_state' = "first"
    /\ pc' = "generate"
    /\ UNCHANGED raised

\* generate_stream from the data-source step to the call of provider.generate
DataSources ==
    /\ pc = "data"
    /\ IF PassiveInjection(req.data_context, ai.data_queries, gates.data_sources)
       THEN /\ ds_metadata' = Some(DsMeta(TRUE, req.data_context, 0, 0, 0))
            /\ PromptSetup(<<"data">>, <<>>)
            /\ UNCHANGED <<calls, ds_results>>
       ELSE IF ai.data_queries # <<>> /\ gates.data_sources
       THEN IF \E i \in 1..Len(ai.data_queries) : ~ai.data_queries[i].dict
            THEN \* q.get raises in query_sources
                 /\ events' = Append(events, Step("data_sources", "start",
                                                  "Querying data sources"))
                 /\ raised' = TRUE
                 /\ pc' = "closed"
                 /\ UNCHANGED <<ds_metadata, ds_results, augmented, max_body_bytes,
                                calls, llm_args, llm_state>>
            ELSE \E ok \in SUBSET Dispatched(ai.data_queries) :
                 LET results == query_sources(ai.data_queries, ok)
                     successful == SelectSeq(results, LAMBDA r : r.success)
                     failed == SelectSeq(results, LAMBDA r : ~r.success)
                 IN  /\ calls' = [calls EXCEPT
                            !.connector = @ + Cardinality(Dispatched(ai.data_queries))]
                     /\ ds_results' = results
                     /\ ds_metadata' = Some(DsMeta(FALSE, 0, Len(ai.data_queries),
                                                   Len(successful), Len(failed)))
                     /\ PromptSetup(
                            IF format_results_for_context(results) # <<>>
                            THEN <<"data">> ELSE <<>>,
                            <<Step("data_sources", "start", "Querying data sources"),
                              Step("data_sources", "done", "Data received")>>)
       ELSE /\ PromptSetup(<<>>, <<>>)
            /\ UNCHANGED <<ds_metadata, ds_results, calls>>
    /\ UNCHANGED <<env, req, gates, cand, analysis, ai, style_id, search_metadata,
                   search_images, response, llm_outcomes, llm_result, unitVars>>

(***************************************************************************)
(* Steps 4 and 5: the generation call has ended; post-processing           *)
(***************************************************************************)

\* the response generate_stream completes with
FinalResponse(result) ==
    [body |-> _enforce_visual_hierarchy(result, get_component_priority(style_id)),
     _search |-> search_metadata,
     _location |-> req.user_location /\ ai.wants_location /\ gates.geolocation,
     _images |-> search_images > 0 /\ _wants_images(req.message),
     _data_sources |-> ds_metadata,
     _style |-> style_id,
     _performance |-> req.performance_mode]

\* generate_stream behind `await provider.generate(...)`
PostProcess ==
    /\ pc = "generate"
    /\ llm_state \in {"returned", "raised"}
    /\ pc' = "closed"
    /\ IF llm_state = "raised" \/ llm_result.value.text_type = "null"
       THEN \* generate raised, or len(None) raises in the log call
            /\ raised' = TRUE
            /\ UNCHANGED <<events, response>>
       ELSE /\ events' = events \o <<Step("llm", "done", "Response generated"),
                                     Event("complete", "", "", "")>>
            /\ response' = Some(FinalResponse(llm_result.value))
            /\ UNCHANGED raised
    /\ UNCHANGED <<env, req, gates, max_body_bytes, cand, analysis, ai, style_id,
                   search_metadata, search_images, ds_metadata, ds_results,
                   augmented, calls, llmVars, unitVars>>

(***************************************************************************)
(* The consumers of the stream in app.py                                   *)
(***************************************************************************)

\* a wrapper that lets the exception of generate_stream pass
sse_generator_without_except == events

\* chat._sse_generator: the events of generate_stream, and an error event
\* when generate_stream raises
_sse_generator ==
    IF raised
    THEN Append(events, Event("error", "", "", "Something went wrong"))
    ELSE events

\* the status of the non-streaming chat: LLMService.generate raises
\* ValueError on an error event, chat answers 400 to it, 500 to any other
\* exception and 200 to a result
chat_status ==
    IF \E i \in 1..Len(events) : events[i].event = "error" THEN 400
    ELSE IF raised THEN 500
    ELSE 200

Next ==
    \/ Start
    \/ AnalyzerTry
    \/ AnalyzeDone
    \/ SearchRun
    \/ DataSources
    \/ FirstCall
    \/ RetryOnRefusal
    \/ PostProcess

Spec == Init /\ [][Next]_vars

(***************************************************************************)
(* An adapter's generate on its own                                        *)
(***************************************************************************)

\* provider.generate(message, model, ...) called on any of the four adapters
UnitGenerate ==
    /\ pc = "idle"
    /\ llm_state = "idle"
    /\ \E p \in Providers, m \in BOOLEAN :
          llm_args' = [provider |-> p, model_ok |-> m, unit |-> TRUE]
    /\ llm_state' = "first"
    /\ UNCHANGED <<pipeVars, llm_outcomes, llm_result, unitVars>>

NextAdapter ==
    \/ UnitGenerate
    \/ FirstCall
    \/ RetryOnRefusal

SpecAdapter == Init /\ [][NextAdapter]_vars

(***************************************************************************)
(* Step 0 on its own                                                       *)
(***************************************************************************)

\* os.getenv of a lock variable: unset, or its text
EnvValues == {None, Some("TRUE"), Some("off")}

GateInputs ==
    [environ : [Tools -> EnvValues],
     enable_web_search : BOOLEAN, enable_geolocation : BOOLEAN,
     enable_data_sources : BOOLEAN, has_history : BOOLEAN]

InitGate ==
    /\ PipeInit
    /\ LlmInit
    /\ call \in {Some(i) : i \in GateInputs}
    /\ ret = None

\* the TOOL_*_ENV constants are read with _env_bool, then step 0 resolves
ResolveGates ==
    /\ call # None
    /\ ret = None
    /\ ret' = Some(ResolveTools([t \in Tools |-> _env_bool(ValueOf(call).environ[t])],
                                ValueOf(call).enable_web_search,
                                ValueOf(call).enable_geolocation,
                                ValueOf(call).has_history,
                                ValueOf(call).enable_data_sources))
    /\ UNCHANGED <<pipeVars, llmVars, call>>

SpecGate == InitGate /\ [][ResolveGates]_vars

(***************************************************************************)
(* The JSON extractor on its own. A text is a sequence of characters; the  *)
(* three backticks of a markdown fence are the one element Fence.          *)
(***************************************************************************)

Quote == "\""
Backslash == "\\"
Fence == "<fence>"
Whitespace == {" "}
WordChars == {"a"}
JsonChars == {"{", "}", Quote, Backslash, ":", "a", " ", Fence}

\* the first index from i on whose character is not in set, else Len(s) + 1
SkipWhile(s, i, set) ==
    IF \E j \in i..Len(s) : s[j] \notin set
    THEN CHOOSE j \in i..Len(s) :
             s[j] \notin set /\ \A k \in i..(j - 1) : s[k] \in set
    ELSE Len(s) + 1

\* str.rstrip(), str.strip()
RStrip(s) ==
    IF \E j \in 1..Len(s) : s[j] \notin Whitespace
    THEN SubSeq(s, 1, CHOOSE j \in 1..Len(s) :
                          s[j] \notin Whitespace
                          /\ \A k \in (j + 1)..Len(s) : s[k] \in Whitespace)
    ELSE <<>>
Strip(s) == RStrip(SubSeq(s, SkipWhile(s, 1, Whitespace), Len(s)))

\* JSON values: a string (s its characters) or an object (m its members)
JStr(s) == [t |-> "str", s |-> s, m |-> <<>>]
JObj(m) == [t |-> "obj", s |-> <<>>, m |-> m]
Member(k, v) == [k |-> k, v |-> v]

Parse(val, pos) == [ok |-> TRUE, val |-> val, pos |-> pos]
JSONDecodeError == [ok |-> FALSE, val |-> JStr(<<>>), pos |-> 0]

\* the scanner of a JSON string behind its opening quote: the escapes \" and
\* \\ are decoded, a backslash before any other character is an error
RECURSIVE ScanString(_, _, _)
ScanString(s, j, acc) ==
    IF j > Len(s) THEN JSONDecodeError
    ELSE IF s[j] = Quote THEN Parse(JStr(acc), j + 1)
    ELSE IF s[j] = Backslash
    THEN IF j + 1 <= Len(s) /\ s[j + 1] \in {Quote, Backslash}
         THEN ScanString(s, j + 2, Append(acc, s[j + 1]))
         ELSE JSONDecodeError
    ELSE ScanString(s, j + 1, Append(acc, s[j]))

\* the scanner of a JSON value at index i: a string or an object
RECURSIVE ScanValue(_, _)
ScanValue(s, i) ==
    IF i > Len(s) THEN JSONDecodeError
    ELSE IF s[i] = Quote THEN ScanString(s, i + 1, <<>>)
    ELSE IF s[i] = "{"
    THEN LET j == SkipWhile(s, i + 1, Whitespace)
         IN  IF j > Len(s) THEN JSONDecodeError
             ELSE IF s[j] = "}" THEN Parse(JObj(<<>>), j + 1)
             ELSE IF s[j] # Quote THEN JSONDecodeError
             ELSE LET key == ScanString(s, j + 1, <<>>)
                      c == SkipWhile(s, key.pos, Whitespace)
                  IN  IF ~key.ok \/ c > Len(s) \/ s[c] # ":"
                      THEN JSONDecodeError
                      ELSE LET v == ScanValue(s, SkipWhile(s, c + 1, Whitespace))
                               e == SkipWhile(s, v.pos, Whitespace)
                           IN  IF ~v.ok \/ e > Len(s) \/ s[e] # "}"
                               THEN JSONDecodeError
                               ELSE Parse(JObj(<<Member(key.val.s, v.val)>>), e + 1)
    ELSE JSONDecodeError

\* json.loads: one value between optional whitespace, nothing behind it
json_loads(s) ==
    LET v == ScanValue(s, SkipWhile(s, 1, Whitespace))
    IN  IF v.ok /\ SkipWhile(s, v.pos, Whitespace) = Len(s) + 1
        THEN v ELSE JSONDecodeError

\* json.loads gives a dict
LoadsDict(s) == json_loads(s).ok /\ json_loads(s).val.t = "obj"

\* text.find(ch) of a character that occurs in text
Find(text, ch) ==
    CHOOSE i \in 1..Len(text) : text[i] = ch /\ \A k \in 1..(i - 1) : text[k] # ch

\* a brace counter that does not track string literals
RECURSIVE BraceScanIgnoringStrings(_, _, _, _)
BraceScanIgnoringStrings(text, start, i, depth) ==
    IF i > Len(text) THEN None
    ELSE IF text[i] = "{" THEN BraceScanIgnoringStrings(text, start, i + 1, depth + 1)
    ELSE IF text[i] = "}"
    THEN IF depth - 1 = 0 THEN Some(SubSeq(text, start, i))
         ELSE BraceScanIgnoringStrings(text, start, i + 1, depth - 1)
    ELSE BraceScanIgnoringStrings(text, start, i + 1, depth)

extract_json_object_ignoring_strings(text) ==
    IF \E i \in 1..Len(text) : text[i] = "{"
    THEN BraceScanIgnoringStrings(text, Find(text, "{"), Find(text, "{"), 0)
    ELSE None

\* the loop of _extract_json_object at index i
RECURSIVE BraceScan(_, _, _, _, _, _)
BraceScan(text, start, i, depth, in_string, escape) ==
    IF i > Len(text) THEN None
    ELSE IF escape THEN BraceScan(text, start, i + 1, depth, in_string, FALSE)
    ELSE IF text[i] = Backslash
    THEN BraceScan(text, start, i + 1, depth, in_string, in_string)
    ELSE IF text[i] = Quote
    THEN BraceScan(text, start, i + 1, depth, ~in_string, FALSE)
    ELSE IF in_string THEN BraceScan(text, start, i + 1, depth, in_string, FALSE)
    ELSE IF text[i] = "{"
    THEN BraceScan(text, start, i + 1, depth + 1, in_string, FALSE)
    ELSE IF text[i] = "}"
    THEN IF depth - 1 = 0 THEN Some(SubSeq(text, start, i))
         ELSE BraceScan(text, start, i + 1, depth - 1, in_string, FALSE)
    ELSE BraceScan(text, start, i + 1, depth, in_string, FALSE)

\* _extract_json_object: from the first "{" to the "}" that closes it
_extract_json_object(text) ==
    IF \E i \in 1..Len(text) : text[i] = "{"
    THEN BraceScan(text, Find(text, "{"), Find(text, "{"), 0, FALSE, FALSE)
    ELSE None

\* re.search(r"\{[\s\S]*\}", content): from the first "{" to the last "}"
GreedyMatch(content) ==
    LET opens == {i \in 1..Len(content) : content[i] = "{"}
        closes == {i \in 1..Len(content) : content[i] = "}"}
        first == CHOOSE i \in opens : \A k \in opens : i <= k
        last == CHOOSE i \in closes : \A k \in closes : i >= k
    IN  IF opens # {} /\ closes # {} /\ first < last
        THEN Some(SubSeq(content, first, last))
        ELSE None

\* the two re.sub of parse_llm_json, on a content that starts with a fence
\* and has no whitespace at its end: the opening fence with the word
\* characters and the whitespace behind it, then a fence at the end with the
\* whitespace before it
StripFences(content) ==
    LET opened == SubSeq(content,
                         SkipWhile(content, SkipWhile(content, 2, WordChars),
                                   Whitespace),
                         Len(content))
    IN  IF opened # <<>> /\ opened[Len(opened)] = Fence
        THEN RStrip(SubSeq(opened, 1, Len(opened) - 1))
        ELSE opened

\* the content parse_llm_json parses: stripped, and without its fences when
\* it starts with one (the alphabet has no BOM or zero-width character)
Cleaned(raw) ==
    IF Strip(raw) # <<>> /\ Strip(raw)[1] = Fence
    THEN Strip(StripFences(Strip(raw)))
    ELSE Strip(raw)

\* {"text": content}
TextDict(content) == JObj(<<Member(<<"text">>, JStr(content))>>)

\* parse_llm_json on a text: the direct parse, the parse of the brace-counted
\* extraction, the parse of the greedy match, else {"text": content}
parse_llm_json_text(raw) ==
    LET content == Cleaned(raw)
        json_str == _extract_json_object(content)
        match == GreedyMatch(content)
    IN  IF LoadsDict(content) THEN json_loads(content).val
        ELSE IF json_str # None /\ LoadsDict(ValueOf(json_str))
        THEN json_loads(ValueOf(json_str)).val
        ELSE IF match # None /\ LoadsDict(ValueOf(match))
        THEN json_loads(ValueOf(match)).val
        ELSE TextDict(content)

\* json.dumps of a string: quotes and backslashes are escaped
RECURSIVE Escaped(_)
Escaped(s) ==
    IF s = <<>> THEN <<>>
    ELSE (IF s[1] \in {Quote, Backslash} THEN <<Backslash, s[1]>> ELSE <<s[1]>>)
         \o Escaped(Tail(s))

\* json.dumps of a value, with the separator ": " of the default
RECURSIVE json_dumps(_)
json_dumps(v) ==
    IF v.t = "str" THEN <<Quote>> \o Escaped(v.s) \o <<Quote>>
    ELSE IF v.m = <<>> THEN <<"{", "}">>
    ELSE <<"{", Quote>> \o Escaped(v.m[1].k) \o <<Quote, ":", " ">>
         \o json_dumps(v.m[1].v) \o <<"}">>

\* The texts the extractor is given: every text of at most MaxRawLen
\* characters, and the serialization of an object, bare or between fences
\* (with a language tag) and followed by prose
MaxRawLen == 4
RawTexts == UNION {[1..n -> JsonChars] : n \in 0..MaxRawLen}

JsonStrings ==
    { <<>>, <<"a">>, <<"}">>, <<"{">>, <<Quote>>, <<Backslash>>,
      <<Backslash, Quote>>, <<"}", Quote, "{">>, <<Fence>>, <<" ", "a", ":">> }

JsonObjects ==
    {JObj(<<>>)}
    \cup {JObj(<<Member(k, JStr(v))>>) : k \in {<<"a">>, <<"{">>}, v \in JsonStrings}
    \cup {JObj(<<Member(<<"a">>, JObj(<<Member(<<"a">>, JStr(v))>>))>>) :
              v \in JsonStrings}

TrailingProse ==
    { <<>>, <<" ", "a">>, <<"a", "}">>, <<"{", "a">>, <<Quote, "}">>,
      <<Backslash, "}", Quote>>, <<"a", " ", Fence>>, <<"{", "}">> }

Fenced(text, prose) == <<Fence, "a", " ">> \o text \o <<" ", Fence>> \o prose

JsonCall(raw, obj, fenced) == [raw |-> raw, obj |-> obj, fenced |-> fenced]

JsonCalls ==
    {JsonCall(raw, None, FALSE) : raw \in RawTexts}
    \cup {JsonCall(json_dumps(o), Some(o), FALSE) : o \in JsonObjects}
    \cup {JsonCall(Fenced(json_dumps(o), prose), Some(o), TRUE) :
              o \in JsonObjects, prose \in TrailingProse}

InitJson ==
    /\ PipeInit
    /\ LlmInit
    /\ call \in {Some(c) : c \in JsonCalls}
    /\ ret = None

\* parse_llm_json(content)
ParseLlmJson ==
    /\ call # None
    /\ ret = None
    /\ ret' = Some(parse_llm_json_text(ValueOf(call).raw))
    /\ UNCHANGED <<pipeVars, llmVars, call>>

SpecJson == InitJson /\ [][ParseLlmJson]_vars

(***************************************************************************)
(* The visual hierarchy on its own                                         *)
(***************************************************************************)

\* entries of a2ui.components: listed and unlisted types, two of a type, an
\* object without type, and a string
MaxComponents == 4
Entries ==
    { Plain("c1", "chart"), Plain("c2", "chart"), Plain("t", "data-table"),
      Plain("w", "widget"), Plain("g", "gauge"), Plain("n", ""), StrayString }

HierarchyCalls ==
    [result : {Parsed("str", <<"ok">>, a, cs) :
                  a \in {"dict", "missing"},
                  cs \in UNION {[1..n -> Entries] : n \in 0..MaxComponents}},
     priority : {get_component_priority(st) : st \in {"comparison", "content"}}]

InitHierarchy ==
    /\ PipeInit
    /\ LlmInit
    /\ call \in {Some(c) : c \in HierarchyCalls}
    /\ ret = None

\* _enforce_visual_hierarchy(response, component_priority)
EnforceHierarchy ==
    /\ call # None
    /\ ret = None
    /\ ret' = Some(_enforce_visual_hierarchy(ValueOf(call).result,
                                             ValueOf(call).priority))
    /\ UNCHANGED <<pipeVars, llmVars, call>>

SpecHierarchy == InitHierarchy /\ [][EnforceHierarchy]_vars

(***************************************************************************)
(* The history budgeter on its own. A content is a sequence of characters  *)
(* of 1, 2 or 3 bytes in UTF-8.                                            *)
(***************************************************************************)

\* len(ch.encode("utf-8"))
Utf8Width(ch) ==
    CASE ch = "a" -> 1
      [] ch = "e-acute" -> 2
      [] ch = "euro" -> 3

\* len(content.encode("utf-8"))
RECURSIVE Utf8Bytes(_)
Utf8Bytes(content) ==
    IF content = <<>> THEN 0
    ELSE Utf8Width(content[1]) + Utf8Bytes(Tail(content))

Turn(role, content) == [role |-> role, content |-> content]

\* a loop that passes over a turn that overflows and goes on to older turns
RECURSIVE TrimLoopSkipping(_, _, _, _)
TrimLoopSkipping(history, i, budget, trimmed) ==
    IF i = 0 THEN trimmed
    ELSE IF Utf8Bytes(history[i].content) > budget
    THEN TrimLoopSkipping(history, i - 1, budget, trimmed)
    ELSE TrimLoopSkipping(history, i - 1, budget - Utf8Bytes(history[i].content),
                          <<history[i]>> \o trimmed)

\* the loop of _trim_history at turn i, newest first
RECURSIVE TrimLoop(_, _, _, _)
TrimLoop(history, i, budget, trimmed) ==
    IF i = 0 THEN trimmed
    ELSE IF Utf8Bytes(history[i].content) > budget THEN trimmed
    ELSE TrimLoop(history, i - 1, budget - Utf8Bytes(history[i].content),
                  <<history[i]>> \o trimmed)

\* a budgeter that keeps the oldest turns that fit
RECURSIVE OldestFirst(_, _, _)
OldestFirst(history, i, budget) ==
    IF i > Len(history) \/ Utf8Bytes(history[i].content) > budget THEN <<>>
    ELSE <<history[i]>>
         \o OldestFirst(history, i + 1, budget - Utf8Bytes(history[i].content))

trim_history_oldest_first(history, system_prompt_bytes, message_bytes, max_bytes) ==
    IF history = <<>> THEN <<>>
    ELSE IF max_bytes = None THEN history
    ELSE OldestFirst(history, 1,
             IF ValueOf(max_bytes) - system_prompt_bytes - message_bytes > 0
             THEN ValueOf(max_bytes) - system_prompt_bytes - message_bytes
             ELSE 0)

\* _trim_history; max_bytes is its parameter max_body_bytes
_trim_history(history, system_prompt_bytes, message_bytes, max_bytes) ==
    IF history = <<>> THEN <<>>
    ELSE IF max_bytes = None THEN history
    ELSE TrimLoop(history, Len(history),
             IF ValueOf(max_bytes) - system_prompt_bytes - message_bytes > 0
             THEN ValueOf(max_bytes) - system_prompt_bytes - message_bytes
             ELSE 0,
             <<>>)

\* histories of at most MaxTurns turns of 0 to 6 bytes, ceilings up to
\* MaxCeiling bytes or none, and the reserved sizes
MaxTurns == 3
MaxCeiling == 12
Turns ==
    { Turn("user", <<>>), Turn("user", <<"a">>), Turn("assistant", <<"euro">>),
      Turn("user", <<"a", "e-acute">>), Turn("assistant", <<"euro", "euro">>) }

TrimCalls ==
    [history : UNION {[1..n -> Turns] : n \in 0..MaxTurns},
     system_prompt_bytes : {0, 2},
     message_bytes : {1},
     max_body_bytes : {None} \cup {Some(b) : b \in 0..MaxCeiling}]

InitTrim ==
    /\ PipeInit
    /\ LlmInit
    /\ call \in {Some(c) : c \in TrimCalls}
    /\ ret = None

\* _trim_history(history, prompt_bytes, msg_bytes, max_body_bytes)
TrimHistory ==
    /\ call # None
    /\ ret = None
    /\ ret' = Some(_trim_history(ValueOf(call).history,
                                 ValueOf(call).system_prompt_bytes,
                                 ValueOf(call).message_bytes,
                                 ValueOf(call).max_body_bytes))
    /\ UNCHANGED <<pipeVars, llmVars, call>>

SpecTrim == InitTrim /\ [][TrimHistory]_vars

(***************************************************************************)
(* The messages an adapter sends                                           *)
(***************************************************************************)

\* _build_messages(message, history, max_body_bytes, system_prompt): the
\* system message, the trimmed history and the user message (the system
\* prompt and the message by their sizes)
_build_messages(message_bytes, history, max_bytes, system_prompt_bytes) ==
    [system |-> system_prompt_bytes,
     history |-> _trim_history(history, system_prompt_bytes, message_bytes,
                               max_bytes),
     user |-> message_bytes]

\* What the adapters send: _build_messages(message, history,
\* system_prompt=system_prompt) in the OpenAI and LiteLLM adapters,
\* _trim_history(history, prompt_bytes, msg_bytes) in the Anthropic and
\* Gemini adapters. Neither call passes a ceiling.
AdapterMessages(message_bytes, history, system_prompt_bytes) ==
    _build_messages(message_bytes, history, None, system_prompt_bytes)

\* provider.generate(message, model, history, system_prompt=system_prompt)
\* up to the request it sends, in a process where WAF_MAX_BODY_BYTES is
\* the max_body_bytes of the call
SendMessages ==
    /\ call # None
    /\ ret = None
    /\ ret' = Some(AdapterMessages(ValueOf(call).message_bytes,
                                   ValueOf(call).history,
                                   ValueOf(call).system_prompt_bytes))
    /\ UNCHANGED <<pipeVars, llmVars, call>>

SpecSend == InitTrim /\ [][SendMessages]_vars

(***************************************************************************)
(* The context blocks of the data sources                                  *)
(***************************************************************************)

\* the cap on a serialized payload, and the length of "\n... (truncated)"
ContextCap == 12000
MarkerLen == 16

\* DataSource.format_for_context(results, label): no block for a failed
\* result or for data None; json.dumps with the cap for an object or a list,
\* str(data) for any other value. The payload is modelled by its length.
DataSource_format_for_context(results) ==
    IF ~results.success \/ results.data.kind = "none"
    THEN [block |-> FALSE, payload |-> 0]
    ELSE IF results.data.kind \in {"dict", "list"}
    THEN [block |-> TRUE,
          payload |-> IF results.data.chars > ContextCap
                      THEN ContextCap + MarkerLen ELSE results.data.chars]
    ELSE [block |-> TRUE, payload |-> results.data.chars]

\* the passive block of generate_stream for one entry dc of data_context:
\* json.dumps(dc.get("data", {})) with the cap. A text serializes to itself
\* in quotes, None to null.
passive_block(dc) ==
    LET serialized == CASE dc.data.kind = "text" -> dc.data.chars + 2
                        [] dc.data.kind = "none" -> 4
                        [] OTHER -> dc.data.chars
    IN  [block |-> TRUE,
         payload |-> IF serialized > ContextCap
                     THEN ContextCap + MarkerLen ELSE serialized]

\* Data values: an object or a list by the length of its serialization, a
\* plain text by its length, None; as the data of a connector result
\* (success or not) or of an entry of data_context.
BlockCalls ==
    [mode : {"passive", "active"},
     success : BOOLEAN,
     data : ([kind : {"dict", "list", "text"},
              chars : {2, ContextCap, ContextCap + 1, 30000}]
             \cup {[kind |-> "none", chars |-> 0]})]

InitBlock ==
    /\ PipeInit
    /\ LlmInit
    /\ call \in {Some(c) : c \in BlockCalls}
    /\ ret = None

NextBlock ==
    \* lines 1485-1491 of generate_stream on one entry of data_context
    \/ /\ call # None
       /\ ret = None
       /\ ValueOf(call).mode = "passive"
       /\ ret' = Some(passive_block(ValueOf(call)))
       /\ UNCHANGED <<pipeVars, llmVars, call>>
    \* source.format_for_context(r, label) of format_results_for_context
    \/ /\ call # None
       /\ ret = None
       /\ ValueOf(call).mode = "active"
       /\ ret' = Some(DataSource_format_for_context(ValueOf(call)))
       /\ UNCHANGED <<pipeVars, llmVars, call>>

SpecBlock == InitBlock /\ [][NextBlock]_vars

(***************************************************************************)
(* Properties of the adapters                                              *)
(***************************************************************************)

\* generate has ended, by a return or by an exception
GenerateEnded == llm_state \in {"returned", "raised"}

\* the outcome of the last call of the chat-completion endpoint
LastOutcome == llm_outcomes[Len(llm_outcomes)]

\* the response has exactly one component, an alert of the given variant
SoleAlert(parsed, variant) ==
    /\ parsed.a2ui_type = "dict"
    /\ Len(parsed.components) = 1
    /\ parsed.components[1].type = "alert"
    /\ parsed.components[1].variant = variant

\* C3: for every adapter and every operational failure of the chat-completion
\* call (authentication, timeout, rate limit, no choices / no content blocks,
\* empty text) generate returns a response and does not raise, and on an
\* empty completion the response carries a warning alert.
C3_NeverRaisesOnOperationalFailure ==
    (GenerateEnded /\ LastOutcome.kind \in {"auth", "timeout", "rate_limit",
                                             "no_choices", "empty_text"})
    => /\ llm_state = "returned"
       /\ LastOutcome.kind \in EmptyKinds
            => \E i \in 1..Len(llm_result.value.components) :
                   /\ llm_result.value.components[i].type = "alert"
                   /\ llm_result.value.components[i].variant = "warning"

\* C4: for every adapter, when the chat-completion call raises a timeout,
\* generate returns without raising a response whose only component is an
\* alert of variant warning.
C4_TimeoutIsSoleWarningAlert ==
    (GenerateEnded /\ LastOutcome.kind = "timeout")
    => /\ llm_state = "returned"
       /\ SoleAlert(llm_result.value, "warning")

\* C5: for every adapter the alert for a provider error has variant warning
\* when the error is transient (rate limit, timeout) and variant error when
\* it is terminal (authentication, permission denied, model not found).
C5_VariantByErrorClass ==
    (llm_state = "returned")
    => /\ LastOutcome.kind \in {"rate_limit", "timeout"}
            => SoleAlert(llm_result.value, "warning")
       /\ LastOutcome.kind \in {"auth", "permission", "not_found"}
            => SoleAlert(llm_result.value, "error")

\* C6: when the first chat-completion call ends in an operational failure
\* the adapter makes no second call and returns the degraded response of
\* that first call.
C6_NoRetryAfterFailure ==
    (llm_outcomes # <<>> /\ llm_outcomes[1].kind \in ErrorKinds \cup EmptyKinds
                         /\ llm_outcomes[1].kind # "other_error")
    => /\ Len(llm_outcomes) = 1
       /\ llm_state = "returned"
            => llm_result = _call_llm(llm_args.provider, llm_outcomes[1])

\* C7: generate calls the chat-completion endpoint at most 2 times; when the
\* first response is a refusal exactly one retry is made and its result is
\* what generate returns, refusal or not; when the first response is not a
\* refusal exactly one call is made.
C7_AtMostOneRetry ==
    /\ Len(llm_outcomes) <= 2
    /\ GenerateEnded =>
         LET first == _call_llm(llm_args.provider, llm_outcomes[1])
         IN  IF first.raised \/ IsRefusalRaises(first.value)
             THEN Len(llm_outcomes) = 1 /\ llm_state = "raised"
             ELSE IF _is_refusal(first.value)
             THEN /\ Len(llm_outcomes) = 2
                  /\ llm_result = _call_llm(llm_args.provider, llm_outcomes[2])
             ELSE Len(llm_outcomes) = 1 /\ llm_result = first

\* the retry was itself a refusal and has been returned
C7_Witness ==
    /\ llm_state = "returned"
    /\ Len(llm_outcomes) = 2
    /\ llm_outcomes[1].kind = "content"
    /\ _is_refusal(llm_result.value)

\* C8: for each gated tool the resolved state is the environment lock when
\* the lock is set (force-off disables, force-on enables, whatever the caller
\* requests) and the caller's setting when it is unset; the caller's setting
\* of history is "a history is supplied", that of the AI classifier is on.
C8_LockThenToggle ==
    ret # None =>
        LET in == ValueOf(call)
            toggle == [web_search |-> in.enable_web_search,
                       geolocation |-> in.enable_geolocation,
                       history |-> in.has_history,
                       ai_classifier |-> TRUE,
                       data_sources |-> in.enable_data_sources]
        IN  \A t \in Tools :
               /\ in.environ[t] = Some("TRUE") => ValueOf(ret)[t]
               /\ in.environ[t] = Some("off") => ~ValueOf(ret)[t]
               /\ in.environ[t] = None => (ValueOf(ret)[t] = toggle[t])

\* force-off against enable=true, and force-on against enable=false
C8_Witness ==
    /\ ret # None
    /\ ValueOf(call).environ["web_search"] = Some("off")
    /\ ValueOf(call).enable_web_search
    /\ ~ValueOf(ret).web_search
    /\ ValueOf(call).environ["data_sources"] = Some("TRUE")
    /\ ~ValueOf(call).enable_data_sources
    /\ ValueOf(ret).data_sources

(***************************************************************************)
(* Properties of the pipeline                                              *)
(***************************************************************************)

IsPrefix(a, b) == Len(a) <= Len(b) /\ SubSeq(b, 1, Len(a)) = a

\* C1: whatever the external calls do, the streaming call emits step events
\* followed by exactly one terminal event, complete or error, and nothing
\* after it: what has been emitted is never taken back, every event before
\* the last is a step, and the stream of an ended call ends with a terminal.
C1_StepsThenOneTerminal ==
    /\ [](/\ \A i \in 1..Len(_sse_generator) :
                _sse_generator[i].event \in {"step", "complete", "error"}
          /\ \A i \in 1..(Len(_sse_generator) - 1) : _sse_generator[i].event = "step"
          /\ pc = "closed"
               => /\ _sse_generator # <<>>
                  /\ _sse_generator[Len(_sse_generator)].event
                        \in {"complete", "error"})
    /\ [][IsPrefix(events, events') /\ (pc = "closed" => events' = events)]_vars

\* the generation call raised behind several steps; the stream ends with error
C1_Witness ==
    /\ pc = "closed"
    /\ llm_state = "raised"
    /\ Len(_sse_generator) > 3
    /\ _sse_generator[Len(_sse_generator)].event = "error"

NoExternalCall ==
    /\ calls = NoCalls
    /\ llm_outcomes = <<>>

\* C2: when the provider is unknown or has no credential, or the model is
\* invalid for it, the request fails with a request-level error (a stream of
\* a single error event; a 4xx status without streaming) and no external
\* call is made before.
C2_CallerErrorsFailBeforeAnyCall ==
    (pc # "idle" /\ (get_provider(req.provider_id) = None \/ ~req.model_ok))
    => /\ NoExternalCall
       /\ pc = "closed" => /\ Len(_sse_generator) = 1
                           /\ _sse_generator[1].event = "error"
                           /\ chat_status = 400

\* C9: the search backend is called at most once, only when the Analyzer or
\* the fallback wants a search and the web-search gate is enabled; with the
\* gate disabled it is not called.
C9_SearchOnlyWhenWantedAndAllowed ==
    /\ calls.search <= 1
    /\ calls.search > 0 => (ai.wants_search /\ gates.web_search)
    /\ ~gates.web_search => calls.search = 0

\* the Analyzer asked for a search, the gate is off, the run has completed
C9_Witness ==
    /\ pc = "closed"
    /\ response # None
    /\ analysis # None
    /\ ai.wants_search
    /\ ~gates.web_search
    /\ calls.search = 0

\* step 1 is behind the run
Analyzed ==
    \E i \in 1..Len(events) : events[i].id = "analyzer" /\ events[i].status = "done"

\* C10: with the style on auto and the Analyzer returning null, style,
\* search-need and location-need are those of the rule-based classification
\* of the message (the style subject to the budget overrides of step 1), so
\* that "iPhone vs Android" gets the comparison style.
C10_NullAnalysisFallsBackToRules ==
    (Analyzed /\ req.content_style = "auto" /\ gates.ai_classifier /\ analysis = None)
    => /\ style_id = BudgetStyle(classify_style(req.message), req.content_style,
                                 req.performance_mode, env.waf)
       /\ ai.wants_search = should_search(req.message)
       /\ ai.wants_location = _regex_needs_location(req.message)

\* the candidates whose provider has a credential, in the order of the contract
AvailableInOrder ==
    SelectSeq(<<"openai", "litellm", "anthropic", "gemini">>,
              LAMBDA p : p \in env.keys)

\* the providers the Analyzer has called, in the order of the calls
CalledInOrder == [i \in 1..Len(calls.analyzer) |-> calls.analyzer[i].provider]

\* C11: the Analyzer tries its candidates in the order openai, litellm,
\* anthropic, gemini: the candidates called are a prefix of the available
\* ones, every call but the last failed to give an object with a registered
\* style, the analysis is that of the first accepted call and no call
\* follows it, and the analysis is null exactly when no call was accepted,
\* which at the return means every available candidate was called and failed.
C11_AnalyzerCandidateOrder ==
    /\ [](/\ IsPrefix(CalledInOrder, AvailableInOrder)
          /\ \A i \in 1..(Len(calls.analyzer) - 1) : ~calls.analyzer[i].accepted
          /\ (analysis # None) <=> (/\ calls.analyzer # <<>>
                                     /\ calls.analyzer[Len(calls.analyzer)].accepted)
          /\ (Analyzed /\ gates.ai_classifier /\ analysis = None)
                => CalledInOrder = AvailableInOrder)
    /\ [][analysis # None => calls'.analyzer = calls.analyzer]_vars

\* litellm failed, anthropic was called next and its analysis was returned
C11_Witness ==
    /\ Analyzed
    /\ analysis # None
    /\ Len(calls.analyzer) = 2
    /\ calls.analyzer[1] = [provider |-> "litellm", accepted |-> FALSE]
    /\ calls.analyzer[2] = [provider |-> "anthropic", accepted |-> TRUE]

(***************************************************************************)
(* Properties of the JSON extractor                                        *)
(***************************************************************************)

\* none of the three steps of the extractor yields a JSON object
NoStepYieldsObject(raw) ==
    /\ ~LoadsDict(Cleaned(raw))
    /\ \/ _extract_json_object(Cleaned(raw)) = None
       \/ ~LoadsDict(ValueOf(_extract_json_object(Cleaned(raw))))
    /\ \/ GreedyMatch(Cleaned(raw)) = None
       \/ ~LoadsDict(ValueOf(GreedyMatch(Cleaned(raw))))

\* C12: for every input text the extractor returns a dict, and when neither
\* the direct parse nor the brace-counting extraction nor the greedy match
\* yields a JSON object it returns {text: rawText}, rawText the raw input.
C12_TotalWithRawTextFallback ==
    ret # None =>
        /\ ValueOf(ret).t = "obj"
        /\ NoStepYieldsObject(ValueOf(call).raw)
             => ValueOf(ret) = TextDict(ValueOf(call).raw)

\* C13: extracting from the serialization of a JSON object O yields O, and
\* so does extracting from O between markdown fences followed by prose, also
\* when strings of O or the prose hold braces, quotes or backslashes.
C13_ExtractRoundTrip ==
    (ret # None /\ ValueOf(call).obj # None)
    => ValueOf(ret) = ValueOf(ValueOf(call).obj)

\* a fenced object whose string holds a brace and a quote, before prose that
\* closes a brace, has been extracted
C13_Witness ==
    /\ ret # None
    /\ ValueOf(call).fenced
    /\ ValueOf(call).obj = Some(JObj(<<Member(<<"a">>, JStr(<<"}", Quote, "{">>))>>))
    /\ ValueOf(call).raw[Len(ValueOf(call).raw)] = "}"
    /\ ValueOf(ret) = ValueOf(ValueOf(call).obj)

(***************************************************************************)
(* Properties of the visual hierarchy                                      *)
(***************************************************************************)

Listed(priority, c) == \E i \in 1..Len(priority) : priority[i] = c.type
IndexIn(priority, c) == CHOOSE i \in 1..Len(priority) : priority[i] = c.type

\* c may stand before d in a list ordered by the priority list
InOrder(priority, c, d) ==
    /\ Listed(priority, d) => Listed(priority, c)
    /\ (Listed(priority, c) /\ Listed(priority, d))
         => IndexIn(priority, c) <= IndexIn(priority, d)

SameRank(priority, c, d) == InOrder(priority, c, d) /\ InOrder(priority, d, c)

\* out is a stable sort of in: a permutation p of the positions carries in
\* to out, out is ordered, and components of one rank keep their order
StableSortOf(out, in, priority) ==
    /\ Len(out) = Len(in)
    /\ \E p \in [1..Len(in) -> 1..Len(in)] :
          /\ \A i, j \in 1..Len(in) : i # j => p[i] # p[j]
          /\ \A i \in 1..Len(in) : out[i] = in[p[i]]
          /\ \A i, j \in 1..Len(in) :
                i < j => /\ InOrder(priority, out[i], out[j])
                         /\ SameRank(priority, out[i], out[j]) => p[i] < p[j]

C15_NonObjectsFilteredOut ==
    (ret # None /\ ValueOf(call).result.a2ui_type = "dict") =>
        /\ Len(ValueOf(call).result.components) >= 2
             => \A i \in 1..Len(ValueOf(ret).components) :
                    IsDict(ValueOf(ret).components[i])
        /\ Len(ValueOf(call).result.components) < 2
             => ValueOf(ret) = ValueOf(call).result

(***************************************************************************)
(* Properties of the history budgeter                                      *)
(***************************************************************************)

\* the last k turns of a history
Suffix(history, k) == SubSeq(history, Len(history) - k + 1, Len(history))

IsSuffix(a, b) == Len(a) <= Len(b) /\ Suffix(b, Len(a)) = a

\* the total content size of some turns, in bytes
RECURSIVE TotalBytes(_)
TotalBytes(turns) ==
    IF turns = <<>> THEN 0
    ELSE Utf8Bytes(turns[1].content) + TotalBytes(Tail(turns))

\* max(0, maxBodyBytes - systemPromptBytes - messageBytes)
BudgetOf(c, ceiling) ==
    IF ceiling - c.system_prompt_bytes - c.message_bytes > 0
    THEN ceiling - c.system_prompt_bytes - c.message_bytes
    ELSE 0

\* C16: with a byte ceiling set the budgeter returns, in the original order,
\* the longest contiguous suffix of the history whose total UTF-8 size is at
\* most max(0, maxBodyBytes - systemPromptBytes - messageBytes): no turn is
\* kept while a newer turn is dropped.
C16_LongestSuffixWithinBudget ==
    (ret # None /\ ValueOf(call).max_body_bytes # None) =>
        LET c == ValueOf(call)
            budget == BudgetOf(c, ValueOf(c.max_body_bytes))
        IN  /\ IsSuffix(ValueOf(ret), c.history)
            /\ TotalBytes(ValueOf(ret)) <= budget
            /\ \A k \in 0..Len(c.history) :
                   TotalBytes(Suffix(c.history, k)) <= budget
                   => k <= Len(ValueOf(ret))

\* the middle turn overflows: the newest turn is kept and the oldest, which
\* would fit, is dropped with it
C16_Witness ==
    /\ ret # None
    /\ ValueOf(call).max_body_bytes = Some(6)
    /\ ValueOf(call).system_prompt_bytes = 2
    /\ ValueOf(call).history
         = <<Turn("user", <<"a">>), Turn("assistant", <<"euro", "euro">>),
             Turn("user", <<"a", "e-acute">>)>>
    /\ ValueOf(ret) = <<Turn("user", <<"a", "e-acute">>)>>

\* C17: for a fixed history and fixed reserved sizes the turns retained under
\* a ceiling B1 are a suffix of the turns retained under any ceiling
\* B2 >= B1, so the number of retained turns does not decrease with the
\* ceiling.
C17_MonotoneInCeiling ==
    (ret # None /\ ValueOf(call).max_body_bytes # None) =>
        LET c == ValueOf(call)
        IN  \A b1 \in 0..ValueOf(c.max_body_bytes) :
               /\ IsSuffix(_trim_history(c.history, c.system_prompt_bytes,
                                         c.message_bytes, Some(b1)),
                           ValueOf(ret))
               /\ Len(_trim_history(c.history, c.system_prompt_bytes,
                                    c.message_bytes, Some(b1)))
                    <= Len(ValueOf(ret))

\* a ceiling that retains every turn, above ceilings that retain one and two
C17_Witness ==
    /\ ret # None
    /\ ValueOf(call).max_body_bytes # None
    /\ Len(ValueOf(ret)) = 3
    /\ \E b1, b2 \in 0..ValueOf(ValueOf(call).max_body_bytes) :
          /\ Len(_trim_history(ValueOf(call).history,
                               ValueOf(call).system_prompt_bytes,
                               ValueOf(call).message_bytes, Some(b1))) = 1
          /\ Len(_trim_history(ValueOf(call).history,
                               ValueOf(call).system_prompt_bytes,
                               ValueOf(call).message_bytes, Some(b2))) = 2

(***************************************************************************)
(* Properties of the style and of the performance mode                     *)
(***************************************************************************)

\* C18: a content_style that is neither auto nor a registered style id does
\* not fail the request and degrades to the default style: the prompt and
\* the component priority used are the default style's, and the style id
\* reported as _style in the final response is the default style id.
C18_UnknownStyleDegradesToDefault ==
    (Analyzed /\ req.content_style \notin VALID_STYLE_IDS \cup {"auto"}) =>
        /\ SystemPromptBytes(style_id) = SystemPromptBytes(DEFAULT_STYLE)
        /\ get_component_priority(style_id) = get_component_priority(DEFAULT_STYLE)
        /\ response # None => /\ ValueOf(response)._style = DEFAULT_STYLE
                               /\ ValueOf(response)._style \in VALID_STYLE_IDS

\* C19: a registered style the caller chooses is the style of the prompt and
\* of the component priority and the one reported as _style, whatever the
\* performance mode, the byte ceiling and the style the Analyzer returns.
C19_ExplicitStyleNeverOverridden ==
    (Analyzed /\ req.content_style \in VALID_STYLE_IDS) =>
        /\ style_id = req.content_style
        /\ response # None => ValueOf(response)._style = req.content_style

\* the comparison style was chosen, the Analyzer named another style, and
\* the run completed both in optimized mode and in auto mode under a
\* ceiling that the prompt of the comparison style exceeds
C19_Witness ==
    /\ response # None
    /\ req.content_style = "comparison"
    /\ analysis # None
    /\ ValueOf(analysis).style = "analytical"
    /\ \/ req.performance_mode = "optimized"
       \/ /\ req.performance_mode = "auto"
          /\ env.waf # None
          /\ OverBudget("comparison", ValueOf(env.waf))
    /\ ValueOf(response)._style = "comparison"

\* C20: the performance mode decides whether the Analyzer runs: in optimized
\* mode no Analyzer call is made during the request and the style is the
\* cheapest one when it is on auto, in comprehensive mode the Analyzer is
\* called (where the classifier gate is enabled and a candidate has a
\* credential).
C20_PerformanceModeDecidesAnalyzer ==
    /\ req.performance_mode = "optimized" => calls.analyzer = <<>>
    /\ (Analyzed /\ req.performance_mode = "optimized" /\ req.content_style = "auto")
         => style_id = "quick"
    /\ (Analyzed /\ req.performance_mode = "comprehensive" /\ gates.ai_classifier
                 /\ AvailableInOrder # <<>>)
         => calls.analyzer # <<>>

(***************************************************************************)
(* Data sources                                                            *)
(***************************************************************************)

\* the last event generate_stream yielded
LastEvent == events[Len(events)]

\* generate_stream has completed
Completed == pc = "closed" /\ response # None

\* the active queries that name a source that is not configured or available
Unavailable == {i \in 1..Len(ai.data_queries) : ai.data_queries[i].source \notin env.sources}

\* C21: a data-source query that names a source that is not configured or not
\* available gets the result {success: false, error: "source_unavailable"}:
\* query_sources does not raise on it, no connector is called for it, and
\* the result contributes no context block.
C21_UnavailableSourceSkipped ==
    /\ ds_results # <<>> =>
          /\ Len(ds_results) = Len(ai.data_queries)
          /\ \A i \in Unavailable :
                /\ ~ds_results[i].success
                /\ ds_results[i].error = "source_unavailable"
                /\ \A k \in 1..Len(format_results_for_context(ds_results)) :
                      format_results_for_context(ds_results)[k].source
                          # ai.data_queries[i].source
          /\ calls.connector = Len(ai.data_queries) - Cardinality(Unavailable)
          /\ Unavailable = 1..Len(ai.data_queries) => ~Contains(augmented, <<"data">>)
    /\ (raised /\ LastEvent = Step("data_sources", "start", "Querying data sources"))
          => \E i \in 1..Len(ai.data_queries) : ~ai.data_queries[i].dict

\* a completed request one of whose two queries named an unavailable source
C21_Witness ==
    /\ Completed
    /\ Len(ds_results) = 2
    /\ Unavailable = {1}
    /\ calls.connector = 1
    /\ ValueOf(ds_metadata).failed = 1

\* C22: for every list the Analyzer returns as data_sources, active sourcing
\* is not fatal and is isolated per query: query_sources gives one result per
\* query, in the order of the queries, a connector that fails gives a failed
\* result for its query only, and the request does not end in the
\* data-source step.
C22_ActiveSourcingNonFatal ==
    /\ ds_results # <<>> =>
          /\ Len(ds_results) = Len(ai.data_queries)
          /\ \A i \in 1..Len(ds_results) :
                ds_results[i].source = ai.data_queries[i].source
    /\ ~(raised /\ LastEvent = Step("data_sources", "start", "Querying data sources"))

\* C23: when the data-sources gate resolves to disabled, data-source
\* augmentation is skipped altogether, with or without a data_context of the
\* caller and whatever the Analyzer proposed: no connector is queried, the
\* message carries no data-source block, and the response has no
\* _data_sources field.
C23_DisabledGateSkipsAugmentation ==
    (pc \in {"generate", "closed"} /\ ~gates.data_sources) =>
        /\ calls.connector = 0
        /\ ~Contains(augmented, <<"data">>)
        /\ ds_metadata = None
        /\ response # None => ValueOf(response)._data_sources = None

(***************************************************************************)
(* Web search failures                                                     *)
(***************************************************************************)

\* the search call has been made and _search records a failure
SearchFailed ==
    /\ calls.search > 0
    /\ search_metadata # None
    /\ ~ValueOf(search_metadata).success

\* C24: in every failure case of the search call (a typed failure of the
\* backend, or an exception while its result is handled) the pipeline goes
\* on: the message carries no search context block, and _search records
\* searched = true, success = false, the error and the query used.
C24_SearchFailureIsClean ==
    /\ calls.search > 0 => search_metadata # None
    /\ SearchFailed =>
          /\ ValueOf(search_metadata).searched
          /\ ValueOf(search_metadata).error # ""
          /\ ValueOf(search_metadata).query = SearchQuery(ai.search_query, req.message)
          /\ ~Contains(augmented, <<"search">>)
          /\ ~(raised /\ LastEvent.id = "search")

(***************************************************************************)
(* The error texts of the adapters                                         *)
(***************************************************************************)

\* the fixed messages of the adapters
FixedDescriptions ==
    {Description(k) : k \in {"timeout", "api_error", "empty_text", "auth",
                             "permission", "not_found", "rate_limit", "no_choices"}}

\* the words of the exception text that are no HTML tags
ExceptionWords(exc) == SelectSeq(exc, LAMBDA w : ~IsTag(w))

\* C25: for every adapter and every exception of the backend call, the text
\* and the alert description of the returned response are a fixed
\* human-readable message: they never contain the text of the exception,
\* and they contain no HTML.
C25_NoRawExceptionText ==
    (llm_state = "returned" /\ LastOutcome.kind \in ErrorKinds) =>
        LET r == llm_result.value
            alert == r.components[1]
        IN  /\ alert.description \in FixedDescriptions
            /\ \A i \in 1..Len(alert.description) : ~IsTag(alert.description[i])
            /\ LastOutcome.exc # <<>> =>
                  /\ ~Contains(alert.description, ExceptionWords(LastOutcome.exc))
                  /\ ~Contains(r.text, ExceptionWords(LastOutcome.exc))

(***************************************************************************)
(* The order of the stages                                                 *)
(***************************************************************************)

\* the positions of events that hold a step of the stage id with the status
StepsAt(id, status) ==
    {i \in 1..Len(events) : /\ events[i].event = "step"
                            /\ events[i].id = id
                            /\ events[i].status = status}

\* the positions of events that hold a step of one of the stages ids
StepsOf(ids) ==
    {i \in 1..Len(events) : events[i].event = "step" /\ events[i].id \in ids}

\* every position of later lies behind some position of earlier
Behind(later, earlier) == \A i \in later : \E j \in earlier : j < i

\* every position of later lies behind every position of earlier
BehindAll(later, earlier) == \A i \in later : \A j \in earlier : j < i

Emitted(id, status) == StepsAt(id, status) # {}

\* C26: the stages run in a fixed order. The tools step comes before the
\* analyzer steps, the analyzer is done before any search or data-source
\* step, every search and data-source call has completed before the llm
\* start step and the generation call, and the llm step is done before
\* complete.
C26_StagesInOrder ==
    /\ [](/\ Behind(StepsOf({"analyzer"}), StepsAt("tools", "done"))
          /\ Behind(StepsOf({"search", "data_sources"}), StepsAt("analyzer", "done"))
          /\ BehindAll(StepsAt("llm", "start"), StepsOf({"search", "data_sources"}))
          /\ Behind({i \in 1..Len(events) : events[i].event = "complete"},
                    StepsAt("llm", "done"))
          /\ Behind(StepsAt("llm", "done"), StepsAt("llm", "start")))
    /\ [][/\ calls'.analyzer # calls.analyzer
               => Emitted("analyzer", "start") /\ ~Emitted("analyzer", "done")
          /\ (calls'.search # calls.search \/ calls'.connector # calls.connector)
               => /\ Emitted("analyzer", "done")
                  /\ ~Emitted("llm", "start")
                  /\ llm_outcomes = <<>>
          /\ llm_outcomes' # llm_outcomes
               => /\ Emitted("llm", "start") /\ ~Emitted("llm", "done")
                  /\ calls' = calls]_vars

\* a completed request that called the Analyzer, searched, queried a
\* connector and generated
C26_Witness ==
    /\ Completed
    /\ LastEvent.event = "complete"
    /\ calls.analyzer # <<>>
    /\ calls.search = 1
    /\ calls.connector > 0
    /\ Emitted("search", "done")
    /\ Emitted("data_sources", "done")
    /\ llm_outcomes # <<>>

(***************************************************************************)
(* The byte ceiling on the generation call                                 *)
(***************************************************************************)

\* C27: when a byte ceiling B is configured, the history an adapter sends on
\* the generation call is the history the budgeter returns under B, so that
\* when prompt and message fit in B the bytes of the prompt, the sent
\* history and the message do not exceed B.
C27_SentHistoryTrimmedUnderCeiling ==
    (call # None /\ ret # None /\ ValueOf(call).max_body_bytes # None) =>
        LET c == ValueOf(call)
            B == ValueOf(c.max_body_bytes)
            sent == ValueOf(ret)
        IN  /\ sent.history = _trim_history(c.history, c.system_prompt_bytes,
                                            c.message_bytes, c.max_body_bytes)
            /\ c.system_prompt_bytes + c.message_bytes <= B
                  => sent.system + TotalBytes(sent.history) + sent.user <= B

(***************************************************************************)
(* The cap on a data-source context block                                  *)
(***************************************************************************)

\* C28: every data-source context block, passive or active, is capped: the
\* serialized payload of a block is at most 12,000 characters plus the
\* truncation marker, for any data value (object, list or plain text).
C28_ContextBlockCapped ==
    (ret # None /\ ValueOf(ret).block) =>
        ValueOf(ret).payload <= ContextCap + MarkerLen

(***************************************************************************)
(* Start and done events                                                   *)
(***************************************************************************)

StageIds == {"analyzer", "search", "data_sources", "llm"}

\* C29: in every streaming run that ends with complete, each step start of
\* a stage (analyzer, search, data_sources, llm) is followed before complete
\* by exactly one done of the same stage, on every branch of the stage, and
\* no done of a stage is emitted without a start of it before.
C29_StartsAndDonesPaired ==
    /\ \A id \in StageIds :
          /\ Cardinality(StepsAt(id, "start")) <= 1
          /\ Cardinality(StepsAt(id, "done")) <= Cardinality(StepsAt(id, "start"))
          /\ Behind(StepsAt(id, "done"), StepsAt(id, "start"))
          /\ StepsOf({id}) = StepsAt(id, "start") \cup StepsAt(id, "done")
    /\ (events # <<>> /\ LastEvent.event = "complete") =>
          \A id \in StageIds :
             Cardinality(StepsAt(id, "done")) = Cardinality(StepsAt(id, "start"))

\* a completed request whose search failed and whose connector call failed:
\* both stages were closed by a done event
C29_Witness ==
    /\ events # <<>>
    /\ LastEvent.event = "complete"
    /\ SearchFailed
    /\ ds_results # <<>>
    /\ \A i \in 1..Len(ds_results) : ~ds_results[i].success
    /\ \A id \in StageIds : Cardinality(StepsAt(id, "done")) = 1

(***************************************************************************)
(* Passive and active sourcing                                             *)
(***************************************************************************)

\* the data-source step is behind
DataStepDone == pc \in {"generate", "closed"} /\ Emitted("llm", "start")

\* C30: at most one data-sourcing mode runs per request, and passive wins.
\* With a non-empty data_context no connector is queried, even if the
\* Analyzer proposed queries and the gate is enabled, and _data_sources
\* records passive = true with the number of supplied blocks; active queries
\* are dispatched only when data_context is empty or absent, the Analyzer
\* proposed at least one query and the gate is enabled.
C30_PassiveWins ==
    /\ (DataStepDone /\ req.data_context > 0) =>
          /\ calls.connector = 0
          /\ ds_results = <<>>
          /\ ~Emitted("data_sources", "start")
          /\ ds_metadata = Some(DsMeta(TRUE, req.data_context, 0, 0, 0))
          /\ response # None => ValueOf(response)._data_sources = ds_metadata
    /\ (calls.connector > 0 \/ Emitted("data_sources", "start")) =>
          /\ req.data_context = 0
          /\ ai.data_queries # <<>>
          /\ gates.data_sources
    /\ (DataStepDone /\ ds_metadata # None /\ ~ValueOf(ds_metadata).passive) =>
          req.data_context = 0

\* a completed request with a supplied block, the gate enabled and a
\* proposed query to an available source: no connector was called
C30_Witness ==
    /\ Completed
    /\ req.data_context > 0
    /\ gates.data_sources
    /\ Dispatched(ai.data_queries) # {}
    /\ calls.connector = 0
    /\ ValueOf(response)._data_sources = Some(DsMeta(TRUE, 1, 0, 0, 0))

====
